---- MODULE Spec2Model ----
(***************************************************************************)
(* Business-trip packing checklist: the checklist state machine of         *)
(* src/src/checklist.js (item factory, dedup/merge engine, regeneration,   *)
(* weather reconciliation, custom items, bag moves, templates).            *)
(*                                                                         *)
(* Representation.                                                         *)
(*  - A JS string that the code inspects character by character (a label)  *)
(*    is a sequence of one-character strings.                              *)
(*  - A source tag is the sequence of its ':'-separated segments:          *)
(*    'activity:pitching' is <<"activity", "pitching">>.                   *)
(*  - A nullable value is a sequence of length 0 (null/undefined) or 1.    *)
(*  - An item's quantity is a natural number, 0 standing for null or       *)
(*    undefined (the code never stores a finite quantity below 1).         *)
(*  - A descriptor's quantity is given in halves, so that fractional       *)
(*    inputs to Math.ceil exist: [fin |-> TRUE, halves |-> 5] is 2.5.      *)
(*  - An item id is the record of the '-'-joined parts of the id string:   *)
(*    prefix, group, slug of the label, tail (bag or time stamp).          *)
(***************************************************************************)
EXTENDS Integers, Sequences, FiniteSets, TLC

VARIABLES appState, now, last, probe, ui, lookups, cache, storage, timer

\* what lies outside the checklist module: the page's own variables and
\* weather display, the weather lookups in flight, the cache of the weather
\* module, the entry in localStorage, the timer of the debounced handler
platform == <<ui, lookups, cache, storage, timer>>

vars == <<appState, now, last, probe, ui, lookups, cache, storage, timer>>

(***************************************************************************)
(* Bounds of the model.                                                    *)
(***************************************************************************)
\* number of operations in one run; `now` is also the clock the code reads
MaxOps == 3

(***************************************************************************)
(* Labels of the program's tables and of the inputs, as character strings. *)
(***************************************************************************)
LShirt == <<"S", "h", "i", "r", "t">>
LTrousers == <<"T", "r", "o", "u", "s", "e", "r", "s">>
LJacket == <<"J", "a", "c", "k", "e", "t">>
LLaptop == <<"L", "a", "p", "t", "o", "p">>
LCharger == <<"C", "h", "a", "r", "g", "e", "r">>
LPhone == <<"P", "h", "o", "n", "e">>
LPassport == <<"P", "a", "s", "s", "p", "o", "r", "t">>
LTickets == <<"T", "i", "c", "k", "e", "t", "s">>
LInsurance == <<"I", "n", "s", "u", "r", "a", "n", "c", "e">>
LxSocks == <<"x", " ", "S", "o", "c", "k", "s">>
LxCasualShirts == <<"x", " ", "C", "a", "s", "u", "a", "l", " ", "S", "h", "i", "r", "t", "s">>
LSpareJacket == <<"S", "p", "a", "r", "e", " ", "J", "a", "c", "k", "e", "t">>
LLightSweater == <<"L", "i", "g", "h", "t", " ", "S", "w", "e", "a", "t", "e", "r">>
LExtensionCord == <<"E", "x", "t", "e", "n", "s", "i", "o", "n", " ", "C", "o", "r", "d">>
LPresentationClicker == <<"P", "r", "e", "s", "e", "n", "t", "a", "t", "i", "o", "n", " ", "C", "l", "i", "c", "k", "e", "r">>
LFormalOutfit == <<"F", "o", "r", "m", "a", "l", " ", "O", "u", "t", "f", "i", "t">>
LClientBriefs == <<"C", "l", "i", "e", "n", "t", " ", "B", "r", "i", "e", "f", "s">>
LBusinessCards == <<"B", "u", "s", "i", "n", "e", "s", "s", " ", "C", "a", "r", "d", "s">>
LNotebookPens == <<"N", "o", "t", "e", "b", "o", "o", "k", " ", "&", " ", "P", "e", "n", "s">>
LFacilitationKit == <<"F", "a", "c", "i", "l", "i", "t", "a", "t", "i", "o", "n", " ", "K", "i", "t">>
LExtraBusinessCards == <<"E", "x", "t", "r", "a", " ", "B", "u", "s", "i", "n", "e", "s", "s", " ", "C", "a", "r", "d", "s">>
LUmbrella == <<"U", "m", "b", "r", "e", "l", "l", "a">>
LRaincoat == <<"R", "a", "i", "n", "c", "o", "a", "t">>
LGloves == <<"G", "l", "o", "v", "e", "s">>
LWoolBeanie == <<"W", "o", "o", "l", " ", "B", "e", "a", "n", "i", "e">>
LSunscreen == <<"S", "u", "n", "s", "c", "r", "e", "e", "n">>
LSunglasses == <<"S", "u", "n", "g", "l", "a", "s", "s", "e", "s">>
LSlimSuit == <<"S", "l", "i", "m", " ", "S", "u", "i", "t">>
LDressShoes == <<"D", "r", "e", "s", "s", " ", "S", "h", "o", "e", "s">>
LPresentationDeckUSB == <<"P", "r", "e", "s", "e", "n", "t", "a", "t", "i", "o", "n", " ", "D", "e", "c", "k", " ", "(", "U", "S", "B", ")">>
LLightweightToiletryKit == <<"L", "i", "g", "h", "t", "w", "e", "i", "g", "h", "t", " ", "T", "o", "i", "l", "e", "t", "r", "y", " ", "K", "i", "t">>
L5xDressShirts == <<"5", "x", " ", "D", "r", "e", "s", "s", " ", "S", "h", "i", "r", "t", "s">>
LConferenceBadgeHolder == <<"C", "o", "n", "f", "e", "r", "e", "n", "c", "e", " ", "B", "a", "d", "g", "e", " ", "H", "o", "l", "d", "e", "r">>
LPortableCharger == <<"P", "o", "r", "t", "a", "b", "l", "e", " ", "C", "h", "a", "r", "g", "e", "r">>
LEveningOutfit == <<"E", "v", "e", "n", "i", "n", "g", " ", "O", "u", "t", "f", "i", "t">>
LTravelSizedLaundryKit == <<"T", "r", "a", "v", "e", "l", "-", "s", "i", "z", "e", "d", " ", "L", "a", "u", "n", "d", "r", "y", " ", "K", "i", "t">>
LNoiseCancellingHeadphones == <<"N", "o", "i", "s", "e", "-", "C", "a", "n", "c", "e", "l", "l", "i", "n", "g", " ", "H", "e", "a", "d", "p", "h", "o", "n", "e", "s">>
LTravelRouter == <<"T", "r", "a", "v", "e", "l", " ", "R", "o", "u", "t", "e", "r">>
LComfyHoodie == <<"C", "o", "m", "f", "y", " ", "H", "o", "o", "d", "i", "e">>
LErgonomicMouse == <<"E", "r", "g", "o", "n", "o", "m", "i", "c", " ", "M", "o", "u", "s", "e">>
LHdmiCable == <<"H", "D", "M", "I", " ", "C", "a", "b", "l", "e">>
LHdmiCableLoose == <<"h", "d", "m", "i", " ", " ", " ", "c", "a", "b", "l", "e">>
LBlank == <<" ", " ">>
LShirtPadded == <<" ", "s", "h", "i", "r", "t", " ">>

(***************************************************************************)
(* Text helpers.                                                           *)
(***************************************************************************)
Null == <<>>

Some(x) == <<x>>

LowerMap ==
  [c \in {"A","B","C","D","E","F","G","H","I","J","K","L","M",
          "N","O","P","Q","R","S","T","U","V","W","X","Y","Z"} |->
     CASE c = "A" -> "a" [] c = "B" -> "b" [] c = "C" -> "c" [] c = "D" -> "d"
       [] c = "E" -> "e" [] c = "F" -> "f" [] c = "G" -> "g" [] c = "H" -> "h"
       [] c = "I" -> "i" [] c = "J" -> "j" [] c = "K" -> "k" [] c = "L" -> "l"
       [] c = "M" -> "m" [] c = "N" -> "n" [] c = "O" -> "o" [] c = "P" -> "p"
       [] c = "Q" -> "q" [] c = "R" -> "r" [] c = "S" -> "s" [] c = "T" -> "t"
       [] c = "U" -> "u" [] c = "V" -> "v" [] c = "W" -> "w" [] c = "X" -> "x"
       [] c = "Y" -> "y" [] c = "Z" -> "z"]

\* String.prototype.toLowerCase, one character
Lower(c) == IF c \in DOMAIN LowerMap THEN LowerMap[c] ELSE c

LowerAlnum ==
  {"a","b","c","d","e","f","g","h","i","j","k","l","m","n","o","p","q","r",
   "s","t","u","v","w","x","y","z","0","1","2","3","4","5","6","7","8","9"}

\* the class \s of the regular expressions, over the characters in use
IsSpace(c) == c = " "

RECURSIVE TrimLeft(_)
TrimLeft(s) ==
  IF s = <<>> THEN <<>>
  ELSE IF IsSpace(Head(s)) THEN TrimLeft(Tail(s)) ELSE s

RECURSIVE TrimRight(_)
TrimRight(s) ==
  IF s = <<>> THEN <<>>
  ELSE IF IsSpace(s[Len(s)]) THEN TrimRight(SubSeq(s, 1, Len(s) - 1)) ELSE s

\* String.prototype.trim
Trim(s) == TrimRight(TrimLeft(s))

\* replace(/[^a-z0-9]+/g, '-') on an already lower-cased string
RECURSIVE DashRuns(_, _)
DashRuns(s, out) ==
  IF s = <<>> THEN out
  ELSE IF Head(s) \in LowerAlnum
         THEN DashRuns(Tail(s), Append(out, Head(s)))
       ELSE IF out # <<>> /\ out[Len(out)] = "-"
         THEN DashRuns(Tail(s), out)
       ELSE DashRuns(Tail(s), Append(out, "-"))

\* replace(/^-+|-+$/g, '') : a run has been collapsed to one dash already
StripDashes(s) ==
  LET a == IF s # <<>> /\ Head(s) = "-" THEN Tail(s) ELSE s
  IN  IF a # <<>> /\ a[Len(a)] = "-" THEN SubSeq(a, 1, Len(a) - 1) ELSE a

\* slugify(text), applied to the label part of `${group}-${label}`: trim,
\* lower case, runs of other characters to '-', no '-' at either end
computeSlug(text) ==
  LET t == Trim(text)
      lowered == [i \in 1..Len(t) |-> Lower(t[i])]
  IN  StripDashes(DashRuns(lowered, <<>>))

\* label normalisation of the conflict key: lower case, trimmed, runs of
\* white space collapsed to one blank
RECURSIVE CollapseSpaces(_, _)
CollapseSpaces(s, out) ==
  IF s = <<>> THEN out
  ELSE IF IsSpace(Head(s))
         THEN IF out # <<>> /\ out[Len(out)] = " "
                THEN CollapseSpaces(Tail(s), out)
                ELSE CollapseSpaces(Tail(s), Append(out, " "))
       ELSE CollapseSpaces(Tail(s), Append(out, Lower(Head(s))))


\* decimal digits of a number below 100, as in a template literal `${n}`
Digit(d) ==
  CASE d = 0 -> "0" [] d = 1 -> "1" [] d = 2 -> "2" [] d = 3 -> "3"
    [] d = 4 -> "4" [] d = 5 -> "5" [] d = 6 -> "6" [] d = 7 -> "7"
    [] d = 8 -> "8" [] d = 9 -> "9"

NumberToString(n) ==
  IF n < 10 THEN <<Digit(n)>> ELSE <<Digit(n \div 10), Digit(n % 10)>>

\* 't000', 't001', ...
NumberedLabel(n) ==
  <<"t", Digit(n \div 100), Digit((n \div 10) % 10), Digit(n % 10)>>

(***************************************************************************)
(* The texts that occur as labels: the tables' labels, the duration labels *)
(* and the labels of the inputs.  The normalised form of each is computed  *)
(* once and looked up afterwards; other texts are normalised on the spot.  *)
(***************************************************************************)
KnownTexts ==
  {LShirt, LTrousers, LJacket, LLaptop,
   LCharger, LPhone, LPassport, LTickets,
   LInsurance, LxSocks, LxCasualShirts, LSpareJacket,
   LLightSweater, LExtensionCord, LPresentationClicker, LFormalOutfit,
   LClientBriefs, LBusinessCards, LNotebookPens, LFacilitationKit,
   LExtraBusinessCards, LUmbrella, LRaincoat, LGloves,
   LWoolBeanie, LSunscreen, LSunglasses, LSlimSuit,
   LDressShoes, LPresentationDeckUSB, LLightweightToiletryKit, L5xDressShirts,
   LConferenceBadgeHolder, LPortableCharger, LEveningOutfit, LTravelSizedLaundryKit,
   LNoiseCancellingHeadphones, LTravelRouter, LComfyHoodie, LErgonomicMouse,
   LHdmiCable, LHdmiCableLoose, LBlank, LShirtPadded}
  \cup {NumberToString(n) \o LxSocks : n \in 1..9}
  \cup {NumberToString(n) \o LxCasualShirts : n \in 1..9}
  \cup {NumberedLabel(n) : n \in 0..999}

WithTrimmed(texts) == texts \cup {Trim(t) : t \in texts}

\* a table lookup that falls back on the computation itself
Cached(table, text, computed) ==
  IF text \in DOMAIN table THEN table[text] ELSE computed

NormalizedKnown ==
  [t \in WithTrimmed(KnownTexts) |-> CollapseSpaces(Trim(t), <<>>)] @@ <<>>

normalizeLabel(label) ==
  Cached(NormalizedKnown, label, CollapseSpaces(Trim(label), <<>>))

SlugKnown == [t \in WithTrimmed(KnownTexts) |-> computeSlug(t)] @@ <<>>

slugify(text) == Cached(SlugKnown, text, computeSlug(text))

(***************************************************************************)
(* Bags, sources, conflict keys.                                           *)
(***************************************************************************)
BAGS == <<"carryOn", "checked", "personal", "work">>

BagSet == {BAGS[i] : i \in 1..Len(BAGS)}

\* a missing (undefined, null, empty) bag or group
NoBag == ""

NoGroup == ""

NoSource == <<>>

SrcBase == <<"base">>

SrcDuration == <<"duration">>

SrcWeather == <<"weather">>

SrcCustom == <<"custom">>

\* the bag segment of an id after toLowerCase()
LowerBag(bag) == IF bag = "carryOn" THEN "carryon" ELSE bag

\* normalizeBagValue: a bag of the enum, or nothing
normalizeBagValue(bag) == IF bag \in BagSet THEN bag ELSE NoBag

\* makeItemKey(label, bag): normalize(label) + "|" + bag
makeItemKey(label, bag) ==
  [label |-> normalizeLabel(label), bag |-> normalizeBagValue(bag)]

getConflictKey(label, bag) == makeItemKey(label, bag)

getConflictKeyFromItem(item) == getConflictKey(item.label, item.bag)

\* source.startsWith('template')
IsTemplateSource(source) == source # <<>> /\ source[1] = "template"

(***************************************************************************)
(* Item factory.                                                           *)
(***************************************************************************)
\* a descriptor with every optional field absent
Descriptor(group, label, source) ==
  [group |-> group, label |-> label, source |-> source, checked |-> FALSE,
   id |-> Null, bag |-> NoBag, qty |-> Null, quantity |-> Null]

Num(halves) == Some([fin |-> TRUE, halves |-> halves])

NotFinite == Some([fin |-> FALSE, halves |-> 0])

\* Number.isFinite(q) && q > 0 ? Math.ceil(q) : null
normalizeQuantityUncapped(q) ==
  IF q # Null /\ q[1].fin /\ q[1].halves > 0
    THEN (q[1].halves + 1) \div 2
    ELSE 0

\* Number.isFinite(q) && q > 0 ? Math.min(99, Math.ceil(q)) : null
normalizeQuantity(q) ==
  IF q # Null /\ q[1].fin /\ q[1].halves > 0
    THEN LET ceil == (q[1].halves + 1) \div 2
         IN  IF ceil < 99 THEN ceil ELSE 99
    ELSE 0

createItem(d) ==
  LET trimmedLabel == Trim(d.label)
      normalizedGroup == IF d.group = NoGroup THEN "other" ELSE d.group
      normalizedBag == IF normalizeBagValue(d.bag) = NoBag
                         THEN "carryOn" ELSE normalizeBagValue(d.bag)
      quantityValue == IF d.quantity # Null THEN d.quantity ELSE d.qty
      prefix == IF d.source = NoSource THEN <<"item">> ELSE d.source
      generatedId == IF d.id # Null THEN d.id[1]
                     ELSE [prefix |-> prefix, group |-> normalizedGroup,
                           slug |-> slugify(trimmedLabel),
                           tail |-> LowerBag(normalizedBag)]
  IN  IF trimmedLabel = <<>> THEN Null
      ELSE Some([id |-> generatedId,
                 group |-> normalizedGroup,
                 label |-> trimmedLabel,
                 source |-> IF d.source = NoSource THEN SrcBase ELSE d.source,
                 checked |-> d.checked,
                 bag |-> normalizedBag,
                 quantity |-> normalizeQuantity(quantityValue)])

\* list.map(createItem).filter(Boolean); a list of more than one descriptor
\* is mapped half by half
RECURSIVE createItems(_)
createItems(ds) ==
  IF ds = <<>> THEN <<>>
  ELSE IF Len(ds) > 1
    THEN createItems(SubSeq(ds, 1, Len(ds) \div 2))
         \o createItems(SubSeq(ds, Len(ds) \div 2 + 1, Len(ds)))
  ELSE createItem(ds[1])

(***************************************************************************)
(* Dedup/merge engine.                                                     *)
(***************************************************************************)
\* mergeDuplicate keeping the later quantity instead of adding the two
mergeDuplicateKeepsLaterQuantity(existing, item) ==
  [existing EXCEPT
     !.checked = existing.checked \/ item.checked,
     !.source = IF item.source = SrcCustom \/ existing.source = SrcCustom
                  THEN SrcCustom
                ELSE IF IsTemplateSource(item.source) THEN item.source
                ELSE existing.source,
     !.bag = IF item.bag # NoBag /\ existing.bag = NoBag
               THEN item.bag ELSE existing.bag,
     !.quantity = IF item.quantity # 0 THEN item.quantity
                  ELSE existing.quantity]

\* mergeDuplicate taking the later checked flag instead of the disjunction
mergeDuplicateLaterChecked(existing, item) ==
  [existing EXCEPT
     !.checked = item.checked,
     !.source = IF item.source = SrcCustom \/ existing.source = SrcCustom
                  THEN SrcCustom
                ELSE IF IsTemplateSource(item.source) THEN item.source
                ELSE existing.source,
     !.bag = IF item.bag # NoBag /\ existing.bag = NoBag
               THEN item.bag ELSE existing.bag,
     !.quantity = IF existing.quantity # 0 /\ item.quantity # 0
                    THEN existing.quantity + item.quantity
                  ELSE IF item.quantity # 0 THEN item.quantity
                  ELSE existing.quantity]

\* mergeDuplicate letting a later template source win over a custom one
mergeDuplicateTemplateWins(existing, item) ==
  [existing EXCEPT
     !.checked = existing.checked \/ item.checked,
     !.source = IF IsTemplateSource(item.source) THEN item.source
                ELSE IF item.source = SrcCustom \/ existing.source = SrcCustom
                  THEN SrcCustom
                ELSE existing.source,
     !.bag = IF item.bag # NoBag /\ existing.bag = NoBag
               THEN item.bag ELSE existing.bag,
     !.quantity = IF existing.quantity # 0 /\ item.quantity # 0
                    THEN existing.quantity + item.quantity
                  ELSE IF item.quantity # 0 THEN item.quantity
                  ELSE existing.quantity]

\* the merge of a later occurrence `item` into the kept occurrence `existing`
mergeDuplicate(existing, item) ==
  [existing EXCEPT
     !.checked = existing.checked \/ item.checked,
     !.source = IF item.source = SrcCustom \/ existing.source = SrcCustom
                  THEN SrcCustom
                ELSE IF IsTemplateSource(item.source) THEN item.source
                ELSE existing.source,
     !.bag = IF item.bag # NoBag /\ existing.bag = NoBag
               THEN item.bag ELSE existing.bag,
     !.quantity = IF existing.quantity # 0 /\ item.quantity # 0
                    THEN existing.quantity + item.quantity
                  ELSE IF item.quantity # 0 THEN item.quantity
                  ELSE existing.quantity]

\* index in `acc` of the entry stored under `key` (0 when absent); entries
\* stay filed under the key of their first occurrence
IndexOfKey(keys, key) ==
  IF \E i \in 1..Len(keys) : keys[i] = key
    THEN CHOOSE i \in 1..Len(keys) : keys[i] = key
    ELSE 0

\* a loop over a list runs the first half to its end before it starts on the
\* rest
After(first, rest) == IF DOMAIN first = DOMAIN first THEN rest ELSE rest

\* dedupeLoop comparing the labels of the keys as written, not normalised
RECURSIVE dedupeLoopExactLabels(_, _, _)
dedupeLoopExactLabels(items, orderedKeys, acc) ==
  IF items = <<>> THEN [orderedKeys |-> orderedKeys, acc |-> acc]
  ELSE IF Len(items) > 1
    THEN LET left == dedupeLoopExactLabels(SubSeq(items, 1, Len(items) \div 2),
                                           orderedKeys, acc)
         IN  After(left,
                   dedupeLoopExactLabels(SubSeq(items, Len(items) \div 2 + 1, Len(items)),
                                         left.orderedKeys, left.acc))
  ELSE LET item == items[1]
           key == [label |-> item.label, bag |-> item.bag]
           at == IndexOfKey(orderedKeys, key)
       IN  IF item.label = <<>>
             THEN [orderedKeys |-> orderedKeys, acc |-> acc]
           ELSE IF at = 0
             THEN [orderedKeys |-> Append(orderedKeys, key),
                   acc |-> Append(acc, item)]
           ELSE [orderedKeys |-> orderedKeys,
                 acc |-> [acc EXCEPT ![at] = mergeDuplicate(acc[at], item)]]

\* the forEach of dedupeItems: the keys seen and the items kept once `items`
\* are through; a list of more than one item is run half by half
RECURSIVE dedupeLoop(_, _, _)
dedupeLoop(items, orderedKeys, acc) ==
  IF items = <<>> THEN [orderedKeys |-> orderedKeys, acc |-> acc]
  ELSE IF Len(items) > 1
    THEN LET left == dedupeLoop(SubSeq(items, 1, Len(items) \div 2),
                                orderedKeys, acc)
         IN  After(left,
                   dedupeLoop(SubSeq(items, Len(items) \div 2 + 1, Len(items)),
                              left.orderedKeys, left.acc))
  ELSE LET item == items[1]
           key == getConflictKeyFromItem(item)
           at == IndexOfKey(orderedKeys, key)
       IN  IF item.label = <<>>
             THEN [orderedKeys |-> orderedKeys, acc |-> acc]
           ELSE IF at = 0
             THEN [orderedKeys |-> Append(orderedKeys, key),
                   acc |-> Append(acc, item)]
           ELSE [orderedKeys |-> orderedKeys,
                 acc |-> [acc EXCEPT ![at] = mergeDuplicate(acc[at], item)]]

dedupeItems(items) == dedupeLoop(items, <<>>, <<>>).acc

(***************************************************************************)
(* Static tables.                                                          *)
(***************************************************************************)
\* Object.entries(CHECKLIST_TEMPLATE): group, labels
CHECKLIST_TEMPLATE ==
  << <<"clothing", <<LShirt, LTrousers, LJacket>> >>,
     <<"tech", <<LLaptop, LCharger, LPhone>> >>,
     <<"documents", <<LPassport, LTickets, LInsurance>> >> >>

ActivityKeys ==
  {"pitching", "clientmeeting", "projectwork", "workshop", "networking"}

ACTIVITY_ADD_ONS(key) ==
  CASE key = "pitching" ->
         << Descriptor("tech", LPresentationClicker, <<"activity", "pitching">>),
            Descriptor("clothing", LFormalOutfit, <<"activity", "pitching">>) >>
    [] key = "clientmeeting" ->
         << Descriptor("documents", LClientBriefs, <<"activity", "clientmeeting">>),
            Descriptor("documents", LBusinessCards, <<"activity", "clientmeeting">>) >>
    [] key = "projectwork" ->
         << Descriptor("tech", LNotebookPens, <<"activity", "projectwork">>) >>
    [] key = "workshop" ->
         << Descriptor("other", LFacilitationKit, <<"activity", "workshop">>) >>
    [] key = "networking" ->
         << Descriptor("documents", LExtraBusinessCards, <<"activity", "networking">>) >>
    [] OTHER -> <<>>

\* mapDurationToItems(days), for an integer number of days
mapDurationToItems(days) ==
  LET duration == IF days > 0 THEN days ELSE 1
      half == (duration + 1) \div 2
      socks == NumberToString(duration) \o LxSocks
      shirts == NumberToString(IF half > 1 THEN half ELSE 1) \o LxCasualShirts
      outer == IF duration > 4 THEN LSpareJacket ELSE LLightSweater
      tech == IF duration > 3 THEN <<LExtensionCord>> ELSE <<>>
      clothingItems == <<socks, shirts, outer>>
  IN  [i \in 1..3 |-> Descriptor("clothing", clothingItems[i], SrcDuration)]
      \o [i \in 1..Len(tech) |-> Descriptor("tech", tech[i], SrcDuration)]

\* the flattening step of list.flatMap(f), given the lists f(list[i])
RECURSIVE Flatten(_)
Flatten(lists) ==
  IF lists = <<>> THEN <<>> ELSE Head(lists) \o Flatten(Tail(lists))

TemplateGroupDescriptors(entry) ==
  [i \in 1..Len(entry[2]) |->
     [Descriptor(entry[1], entry[2][i], SrcBase) EXCEPT !.bag = "carryOn"]]

\* the items of the static template, the same for every trip
StaticBaseItems ==
  createItems(Flatten([i \in 1..Len(CHECKLIST_TEMPLATE) |->
                        TemplateGroupDescriptors(CHECKLIST_TEMPLATE[i])]))

\* buildBaseItems without the add-ons of the activities
buildBaseItemsWithoutActivities(trip) ==
  dedupeItems(StaticBaseItems
              \o createItems(mapDurationToItems(trip.durationDays)))

buildBaseItems(trip) ==
  LET base == StaticBaseItems
      durationItems == createItems(mapDurationToItems(trip.durationDays))
      activityItems ==
        createItems(Flatten([i \in 1..Len(trip.activities) |->
                               ACTIVITY_ADD_ONS(trip.activities[i])]))
  IN  dedupeItems(base \o durationItems \o activityItems)

(***************************************************************************)
(* Application state.                                                      *)
(***************************************************************************)
createDefaultState(time) ==
  [trip |-> [city |-> "", country |-> "", durationDays |-> 3,
             activities |-> <<>>, generatedAt |-> time],
   items |-> <<>>,
   weather |-> Null,
   meta |-> [lastTemplate |-> Null]]

\* what the last operation was, what it returned and the snapshot it ran on
NoOp == [op |-> "init", arg |-> Null, result |-> Null, before |-> Null]

NoProbe == [fn |-> "none"]

\* initChecklist() with nothing persisted
initChecklist(time) ==
  LET normalized == createDefaultState(time)
  IN  IF normalized.items = <<>>
        THEN [normalized EXCEPT !.items = buildBaseItems(normalized.trip)]
        ELSE normalized

\* main.js as loaded: no lookup pending, no weather items, the weather panel
\* idle, no toast
PageLoaded ==
  [pendingWeatherController |-> 0, lastWeatherItems |-> <<>>,
   status |-> [status |-> "idle", data |-> Null, error |-> Null,
               onRetry |-> FALSE],
   toasts |-> 0]

\* nothing has been fetched, cached, stored or scheduled
PlatformAtRest ==
  /\ ui = PageLoaded
  /\ lookups = <<>>
  /\ cache = <<>>
  /\ storage = Null
  /\ timer = Null

Init ==
  /\ appState = initChecklist(0)
  /\ now = 0
  /\ last = NoOp
  /\ probe = NoProbe
  /\ PlatformAtRest

\* every operation is one UI event in a millisecond of its own; a run ends
\* after `bound` of them
StepWithin(bound, op, arg, result, nextState) ==
  /\ now < bound
  /\ now' = now + 1
  /\ appState' = nextState
  /\ last' = [op |-> op, arg |-> arg, result |-> result, before |-> appState]
  /\ UNCHANGED <<probe, platform>>

Step(op, arg, result, nextState) ==
  StepWithin(MaxOps, op, arg, result, nextState)

\* new Map(items.map(item => [key(item), item])).get(key): the last entry
\* written under a key wins
MapGet(items, key) ==
  LET hits == {i \in 1..Len(items) : getConflictKeyFromItem(items[i]) = key}
  IN  IF hits = {} THEN Null
      ELSE Some(items[CHOOSE i \in hits : \A j \in hits : j <= i])

\* items.find(p), given the indices at which p holds: the index of the first
\* match, 0 when there is none
FirstIndex(hits) ==
  IF hits = {} THEN 0 ELSE CHOOSE i \in hits : \A j \in hits : i <= j

(***************************************************************************)
(* updateTrip                                                              *)
(***************************************************************************)
\* updateTrip that builds the list of the new trip at once
updateTripRegenerates(state, partial, time) ==
  LET next == [state EXCEPT
                 !.trip = [city |-> IF partial.city # Null
                                      THEN partial.city[1] ELSE @.city,
                           country |-> IF partial.country # Null
                                         THEN partial.country[1] ELSE @.country,
                           durationDays |-> IF partial.durationDays # Null
                                              THEN partial.durationDays[1]
                                              ELSE @.durationDays,
                           activities |-> IF partial.activities # Null
                                            THEN partial.activities[1]
                                            ELSE @.activities,
                           generatedAt |-> time]]
  IN  [next EXCEPT !.items = buildBaseItems(next.trip)]

updateTrip(state, partial, time) ==
  [state EXCEPT
     !.trip = [city |-> IF partial.city # Null THEN partial.city[1] ELSE @.city,
               country |-> IF partial.country # Null
                             THEN partial.country[1] ELSE @.country,
               durationDays |-> IF partial.durationDays # Null
                                  THEN partial.durationDays[1]
                                  ELSE @.durationDays,
               activities |-> IF partial.activities # Null
                                THEN partial.activities[1] ELSE @.activities,
               generatedAt |-> time]]

(***************************************************************************)
(* generateChecklist, reconcileWeatherItems                                *)
(***************************************************************************)
createWeatherItem(descriptor) ==
  createItem([descriptor EXCEPT !.source = SrcWeather])

createWeatherItems(ds) ==
  createItems([i \in 1..Len(ds) |-> [ds[i] EXCEPT !.source = SrcWeather]])

\* generateChecklist keeping every item of the list, not the custom ones only
generateChecklistKeepsAll(state, weatherItems) ==
  LET previous == state.items
      fresh == buildBaseItems(state.trip)
      baseItems ==
        [i \in 1..Len(fresh) |->
           LET existing == MapGet(previous, getConflictKeyFromItem(fresh[i]))
           IN  IF existing # Null THEN existing[1] ELSE fresh[i]]
      IsKept(item) == item.source # SrcWeather
      IsWeather(item) == item.source = SrcWeather
      weatherSource == IF weatherItems # Null
                         THEN createWeatherItems(weatherItems[1])
                         ELSE SelectSeq(state.items, IsWeather)
  IN  [state EXCEPT
         !.items = dedupeItems(baseItems \o SelectSeq(state.items, IsKept)
                               \o weatherSource)]

generateChecklist(state, weatherItems) ==
  LET previous == state.items
      fresh == buildBaseItems(state.trip)
      baseItems ==
        [i \in 1..Len(fresh) |->
           LET existing == MapGet(previous, getConflictKeyFromItem(fresh[i]))
           IN  IF existing # Null THEN existing[1] ELSE fresh[i]]
      IsCustom(item) == item.source = SrcCustom
      IsWeather(item) == item.source = SrcWeather
      customItems == SelectSeq(state.items, IsCustom)
      weatherSource == IF weatherItems # Null
                         THEN createWeatherItems(weatherItems[1])
                         ELSE SelectSeq(state.items, IsWeather)
      weatherMerged ==
        [i \in 1..Len(weatherSource) |->
           LET existing == MapGet(previous,
                                  getConflictKeyFromItem(weatherSource[i]))
           IN  IF existing # Null
                 THEN [existing[1] EXCEPT !.source = SrcWeather]
                 ELSE [weatherSource[i] EXCEPT !.checked = FALSE]]
  IN  [state EXCEPT
         !.items = dedupeItems(baseItems \o customItems \o weatherMerged)]

reconcileWeatherItems(state, weatherDescriptors) ==
  LET IsWeather(item) == item.source = SrcWeather
      NotWeather(item) == item.source # SrcWeather
      previousWeather == SelectSeq(state.items, IsWeather)
      created == createWeatherItems(weatherDescriptors)
      refreshed ==
        dedupeItems(
          [i \in 1..Len(created) |->
             LET existing == MapGet(previousWeather,
                                    getConflictKeyFromItem(created[i]))
             IN  IF existing # Null THEN existing[1] ELSE created[i]])
      retained == SelectSeq(state.items, NotWeather)
  IN  [state EXCEPT !.items = dedupeItems(retained \o refreshed)]

(***************************************************************************)
(* ensureUniqueOrMerge, addCustomItem                                      *)
(***************************************************************************)
\* ensureUniqueOrMerge taking a missing quantity of the existing item as it is
ensureUniqueOrMergeRawQuantity(state, newItem, confirm) ==
  LET prepared == createItem(newItem)
      key == getConflictKeyFromItem(prepared[1])
      SameKey(item) == getConflictKeyFromItem(item) = key
      at == FirstIndex({i \in 1..Len(state.items) : SameKey(state.items[i])})
      existing == state.items[at]
      addQty == IF prepared[1].quantity # 0 THEN prepared[1].quantity ELSE 1
      baseQty == existing.quantity
      updated == [existing EXCEPT !.quantity = baseQty + addQty]
  IN  IF prepared = Null
        THEN [result |-> [status |-> "cancelled", item |-> Null],
              state |-> state]
      ELSE IF at = 0
        THEN [result |-> [status |-> "added", item |-> prepared],
              state |-> [state EXCEPT
                           !.items = dedupeItems(Append(@, prepared[1]))]]
      ELSE IF ~confirm
        THEN [result |-> [status |-> "cancelled", item |-> Some(existing)],
              state |-> state]
      ELSE [result |-> [status |-> "merged", item |-> Some(updated)],
            state |-> [state EXCEPT
                         !.items = [i \in 1..Len(@) |->
                                      IF @[i].id = existing.id
                                        THEN updated ELSE @[i]]]]

\* ensureUniqueOrMerge raising the quantity whatever the user answers
ensureUniqueOrMergeDeclineIgnored(state, newItem, confirm) ==
  LET prepared == createItem(newItem)
      key == getConflictKeyFromItem(prepared[1])
      SameKey(item) == getConflictKeyFromItem(item) = key
      at == FirstIndex({i \in 1..Len(state.items) : SameKey(state.items[i])})
      existing == state.items[at]
      addQty == IF prepared[1].quantity # 0 THEN prepared[1].quantity ELSE 1
      baseQty == IF existing.quantity # 0 THEN existing.quantity ELSE 1
      updated == [existing EXCEPT !.quantity = baseQty + addQty]
  IN  IF prepared = Null
        THEN [result |-> [status |-> "cancelled", item |-> Null],
              state |-> state]
      ELSE IF at = 0
        THEN [result |-> [status |-> "added", item |-> prepared],
              state |-> [state EXCEPT
                           !.items = dedupeItems(Append(@, prepared[1]))]]
      ELSE [result |-> IF confirm
                         THEN [status |-> "merged", item |-> Some(updated)]
                         ELSE [status |-> "cancelled", item |-> Some(existing)],
            state |-> [state EXCEPT
                         !.items = [i \in 1..Len(@) |->
                                      IF @[i].id = existing.id
                                        THEN updated ELSE @[i]]]]

\* returns the result record and the next state; `confirm` is the answer the
\* user gives to window.confirm, read only when the candidate conflicts
ensureUniqueOrMerge(state, newItem, confirm) ==
  LET prepared == createItem(newItem)
      key == getConflictKeyFromItem(prepared[1])
      SameKey(item) == getConflictKeyFromItem(item) = key
      at == FirstIndex({i \in 1..Len(state.items) : SameKey(state.items[i])})
      existing == state.items[at]
      addQty == IF prepared[1].quantity # 0 THEN prepared[1].quantity ELSE 1
      baseQty == IF existing.quantity # 0 THEN existing.quantity ELSE 1
      updated == [existing EXCEPT !.quantity = baseQty + addQty]
  IN  IF prepared = Null
        THEN [result |-> [status |-> "cancelled", item |-> Null],
              state |-> state]
      ELSE IF at = 0
        THEN [result |-> [status |-> "added", item |-> prepared],
              state |-> [state EXCEPT
                           !.items = dedupeItems(Append(@, prepared[1]))]]
      ELSE IF ~confirm
        THEN [result |-> [status |-> "cancelled", item |-> Some(existing)],
              state |-> state]
      ELSE [result |-> [status |-> "merged", item |-> Some(updated)],
            state |-> [state EXCEPT
                         !.items = [i \in 1..Len(@) |->
                                      IF @[i].id = existing.id
                                        THEN updated ELSE @[i]]]]

\* Date.now().toString(36), the tail of a custom item's id
TimeTail(time) == ToString(time)

addCustomItem(state, label, group, confirm, time) ==
  LET trimmed == Trim(label)
      descriptor ==
        [Descriptor(group, trimmed, SrcCustom) EXCEPT
           !.id = Some([prefix |-> SrcCustom, group |-> group,
                        slug |-> slugify(trimmed), tail |-> TimeTail(time)])]
  IN  IF trimmed = <<>>
        THEN [result |-> [status |-> "rejected", item |-> Null],
              state |-> state]
        ELSE ensureUniqueOrMerge(state, descriptor, confirm)

(***************************************************************************)
(* toggleItem, deleteItem, moveItemToBag                                   *)
(***************************************************************************)
toggleItem(state, id, checked) ==
  [state EXCEPT !.items = [i \in 1..Len(@) |->
                             IF @[i].id = id
                               THEN [@[i] EXCEPT !.checked = checked]
                               ELSE @[i]]]

deleteItem(state, id) ==
  LET Others(item) == item.id # id
  IN  [state EXCEPT !.items = SelectSeq(@, Others)]

moveItemToBag(state, itemId, bag) ==
  LET normalizedBag == IF normalizeBagValue(bag) = NoBag
                         THEN "carryOn" ELSE normalizeBagValue(bag)
      HasId(item) == item.id = itemId
      targetAt == FirstIndex({i \in 1..Len(state.items) : HasId(state.items[i])})
      target == state.items[targetAt]
      newKey == getConflictKey(target.label, normalizedBag)
      Conflicts(item) ==
        item.id # itemId /\ getConflictKeyFromItem(item) = newKey
      conflictAt == FirstIndex({i \in 1..Len(state.items) : Conflicts(state.items[i])})
      conflict == state.items[conflictAt]
      mergedQuantity ==
        (IF conflict.quantity # 0 THEN conflict.quantity ELSE 1)
        + (IF target.quantity # 0 THEN target.quantity ELSE 1)
      Others(item) == item.id # itemId
      kept == SelectSeq(state.items, Others)
  IN  IF targetAt = 0 THEN [result |-> "missing", state |-> state]
      ELSE IF conflictAt # 0
        THEN [result |-> "merged",
              state |-> [state EXCEPT
                           !.items = [i \in 1..Len(kept) |->
                                        IF kept[i].id = conflict.id
                                          THEN [kept[i] EXCEPT
                                                  !.quantity = mergedQuantity]
                                          ELSE kept[i]]]]
      ELSE [result |-> "moved",
            state |-> [state EXCEPT
                         !.items = [i \in 1..Len(@) |->
                                      IF @[i].id = itemId
                                        THEN [@[i] EXCEPT !.bag = normalizedBag]
                                        ELSE @[i]]]]

(***************************************************************************)
(* Templates                                                               *)
(***************************************************************************)
MAX_TEMPLATE_ITEMS == 500

\* a raw template entry; bag and qty may be missing
TemplateEntry(label, group, bag, qty) ==
  [label |-> label, group |-> group, bag |-> bag, qty |-> qty]

BUILT_IN_TEMPLATES ==
  << [id |-> <<"builtin", "overnight-pitch">>, name |-> "Overnight Pitch",
      items |-> << TemplateEntry(LSlimSuit, "clothing", "carryOn", Null),
                   TemplateEntry(LDressShoes, "clothing", "carryOn", Null),
                   TemplateEntry(LPresentationDeckUSB, "tech", "work", Null),
                   TemplateEntry(LBusinessCards, "documents", "work", Null),
                   TemplateEntry(LLightweightToiletryKit, "other", "carryOn",
                                 Null) >>],
     [id |-> <<"builtin", "weeklong-conference">>,
      name |-> "Weeklong Conference",
      items |-> << TemplateEntry(L5xDressShirts, "clothing", "checked", Num(10)),
                   TemplateEntry(LConferenceBadgeHolder, "documents",
                                 "personal", Null),
                   TemplateEntry(LPortableCharger, "tech", "personal", Null),
                   TemplateEntry(LEveningOutfit, "clothing", "checked", Null),
                   TemplateEntry(LTravelSizedLaundryKit, "other", "checked",
                                 Null) >>],
     [id |-> <<"builtin", "remote-work-sprint">>, name |-> "Remote Work Sprint",
      items |-> << TemplateEntry(LNoiseCancellingHeadphones, "tech", "personal",
                                 Null),
                   TemplateEntry(LTravelRouter, "tech", "carryOn", Null),
                   TemplateEntry(LNotebookPens, "documents", "work", Null),
                   TemplateEntry(LComfyHoodie, "clothing", "carryOn", Null),
                   TemplateEntry(LErgonomicMouse, "tech", "work", Null) >>] >>

\* the forEach of sanitizeTemplateItems: the keys seen and the entries kept
\* once `raws` are through; a list of more than one item is run half by half
RECURSIVE sanitizeLoop(_, _, _)
sanitizeLoop(raws, keys, result) ==
  IF raws = <<>> THEN [keys |-> keys, result |-> result]
  ELSE IF Len(raws) > 1
    THEN LET left == sanitizeLoop(SubSeq(raws, 1, Len(raws) \div 2),
                                  keys, result)
         IN  After(left,
                   sanitizeLoop(SubSeq(raws, Len(raws) \div 2 + 1, Len(raws)),
                                left.keys, left.result))
  ELSE LET raw == raws[1]
           label == Trim(raw.label)
           bag == normalizeBagValue(raw.bag)
           key == getConflictKey(label, bag)
           qty == normalizeQuantity(raw.qty)
           entry == [label |-> label,
                     group |-> IF raw.group = NoGroup THEN "other" ELSE raw.group,
                     bag |-> bag,
                     qty |-> IF qty = 0 THEN Null ELSE Num(2 * qty)]
       IN  IF label = <<>> \/ key \in keys
             THEN [keys |-> keys, result |-> result]
             ELSE [keys |-> keys \cup {key}, result |-> Append(result, entry)]

\* sanitizeTemplateItems without the cap
sanitizeTemplateItemsUncapped(template) ==
  [items |-> sanitizeLoop(template.items, {}, <<>>).result,
   truncated |-> FALSE]

sanitizeTemplateItems(template) ==
  LET result == sanitizeLoop(template.items, {}, <<>>).result
      truncated == Len(result) > MAX_TEMPLATE_ITEMS
  IN  [items |-> IF truncated THEN SubSeq(result, 1, MAX_TEMPLATE_ITEMS)
                 ELSE result,
       truncated |-> truncated]

convertTemplateItem(entry, templateId) ==
  createItem([Descriptor(entry.group, entry.label,
                         IF templateId # <<>> THEN <<"template">> \o templateId
                         ELSE <<"template">>)
                EXCEPT !.bag = entry.bag, !.qty = entry.qty])

\* items.map(convertTemplateItem).filter(Boolean), half by half
RECURSIVE convertTemplateItems(_, _)
convertTemplateItems(entries, templateId) ==
  IF entries = <<>> THEN <<>>
  ELSE IF Len(entries) > 1
    THEN convertTemplateItems(SubSeq(entries, 1, Len(entries) \div 2),
                              templateId)
         \o convertTemplateItems(
              SubSeq(entries, Len(entries) \div 2 + 1, Len(entries)),
              templateId)
  ELSE convertTemplateItem(entries[1], templateId)

\* the forEach of either mode: the keys seen and the items taken once
\* `converted` are through, given the keys to avoid; half by half
RECURSIVE takeNew(_, _, _)
takeNew(converted, keys, taken) ==
  IF converted = <<>> THEN [keys |-> keys, taken |-> taken]
  ELSE IF Len(converted) > 1
    THEN LET left == takeNew(SubSeq(converted, 1, Len(converted) \div 2),
                             keys, taken)
         IN  After(left,
                   takeNew(SubSeq(converted, Len(converted) \div 2 + 1, Len(converted)),
                           left.keys, left.taken))
  ELSE LET key == getConflictKeyFromItem(converted[1])
       IN  IF key \in keys THEN [keys |-> keys, taken |-> taken]
           ELSE [keys |-> keys \cup {key},
                 taken |-> Append(taken, converted[1])]

KeysOf(items) == {getConflictKeyFromItem(items[i]) : i \in 1..Len(items)}

\* diffTemplate counting every template item, present or not
diffTemplateCountsAll(state, template) ==
  LET sanitized == sanitizeTemplateItems(template)
      converted == convertTemplateItems(sanitized.items, template.id)
      Retained(item) == item.source = SrcCustom \/ item.source = SrcWeather
      retained == SelectSeq(state.items, Retained)
  IN  IF sanitized.items = <<>> THEN [willAdd |-> 0, willReplace |-> 0]
      ELSE [willAdd |-> Len(converted),
            willReplace |-> Len(state.items) - Len(retained)]

\* a read of the state: the result only
diffTemplate(state, template) ==
  LET sanitized == sanitizeTemplateItems(template)
      converted == convertTemplateItems(sanitized.items, template.id)
      existingKeys == KeysOf(state.items)
      NotPresent(item) == getConflictKeyFromItem(item) \notin existingKeys
      Retained(item) == item.source = SrcCustom \/ item.source = SrcWeather
      retained == SelectSeq(state.items, Retained)
  IN  IF sanitized.items = <<>> THEN [willAdd |-> 0, willReplace |-> 0]
      ELSE [willAdd |-> Len(SelectSeq(converted, NotPresent)),
            willReplace |-> Len(state.items) - Len(retained)]

\* applyTemplate whose replace mode drops nothing
applyTemplateReplaceKeepsAll(state, template, mode, time) ==
  LET sanitized == sanitizeTemplateItems(template)
      converted == convertTemplateItems(sanitized.items, template.id)
      existing == state.items
      toAppend == takeNew(converted, KeysOf(existing), <<>>).taken
      Retained(item) == item.source = SrcCustom \/ item.source = SrcWeather
      retained == SelectSeq(existing, Retained)
      templateItems == takeNew(converted, KeysOf(retained), <<>>).taken
      nextItems == IF mode = "merge" THEN dedupeItems(existing \o toAppend)
                   ELSE dedupeItems(templateItems \o existing)
      lastTemplate == [id |-> template.id, name |-> template.name,
                       appliedAt |-> time, mode |-> mode]
  IN  IF sanitized.items = <<>>
        THEN [result |-> [added |-> 0, replaced |-> 0, skipped |-> 0,
                          truncated |-> sanitized.truncated],
              state |-> state]
      ELSE IF mode = "merge"
        THEN [result |-> [added |-> Len(toAppend), replaced |-> 0,
                          skipped |-> Len(converted) - Len(toAppend),
                          truncated |-> sanitized.truncated],
              state |-> [state EXCEPT !.items = nextItems,
                                      !.meta.lastTemplate = Some(lastTemplate)]]
      ELSE [result |-> [added |-> Len(templateItems),
                        replaced |-> Len(existing) - Len(retained),
                        skipped |-> Len(converted) - Len(templateItems),
                        truncated |-> sanitized.truncated],
            state |-> [state EXCEPT !.items = nextItems,
                                    !.meta.lastTemplate = Some(lastTemplate)]]

applyTemplate(state, template, mode, time) ==
  LET sanitized == sanitizeTemplateItems(template)
      converted == convertTemplateItems(sanitized.items, template.id)
      existing == state.items
      toAppend == takeNew(converted, KeysOf(existing), <<>>).taken
      Retained(item) == item.source = SrcCustom \/ item.source = SrcWeather
      retained == SelectSeq(existing, Retained)
      templateItems == takeNew(converted, KeysOf(retained), <<>>).taken
      nextItems == IF mode = "merge" THEN dedupeItems(existing \o toAppend)
                   ELSE dedupeItems(templateItems \o retained)
      lastTemplate == [id |-> template.id, name |-> template.name,
                       appliedAt |-> time, mode |-> mode]
  IN  IF sanitized.items = <<>>
        THEN [result |-> [added |-> 0, replaced |-> 0, skipped |-> 0,
                          truncated |-> sanitized.truncated],
              state |-> state]
      ELSE IF mode = "merge"
        THEN [result |-> [added |-> Len(toAppend), replaced |-> 0,
                          skipped |-> Len(converted) - Len(toAppend),
                          truncated |-> sanitized.truncated],
              state |-> [state EXCEPT !.items = nextItems,
                                      !.meta.lastTemplate = Some(lastTemplate)]]
      ELSE [result |-> [added |-> Len(templateItems),
                        replaced |-> Len(existing) - Len(retained),
                        skipped |-> Len(converted) - Len(templateItems),
                        truncated |-> sanitized.truncated],
            state |-> [state EXCEPT !.items = nextItems,
                                    !.meta.lastTemplate = Some(lastTemplate)]]

(***************************************************************************)
(* Inputs of the operations.                                               *)
(***************************************************************************)
NoPartial ==
  [city |-> Null, country |-> Null, durationDays |-> Null, activities |-> Null]

TripPartials ==
  { [NoPartial EXCEPT !.durationDays = Some(5),
                      !.activities = Some(<<"pitching">>)],
    [NoPartial EXCEPT !.durationDays = Some(3), !.activities = Some(<<>>)],
    [NoPartial EXCEPT !.city = Some("Berlin"), !.country = Some("DE")] }

WeatherDescriptorLists ==
  { <<>>,
    << Descriptor("other", LUmbrella, SrcWeather) >>,
    << Descriptor("other", LUmbrella, SrcWeather),
       Descriptor("clothing", LRaincoat, SrcWeather) >> }

\* 'HDMI Cable' and 'hdmi   cable' in the carry-on, 98.5 umbrellas, a blank
CustomDescriptors ==
  { [Descriptor("tech", LHdmiCable, SrcCustom) EXCEPT !.bag = "carryOn"],
    [Descriptor("tech", LHdmiCableLoose, SrcCustom) EXCEPT !.bag = "carryOn"],
    [Descriptor("other", LUmbrella, SrcCustom) EXCEPT !.quantity = Num(197)],
    Descriptor("other", LBlank, SrcCustom) }

CustomLabels == {LHdmiCable, LShirtPadded, LBlank}

\* the items the user acts on: those with one of these normalised labels
FocusLabels ==
  {normalizeLabel(LShirt), normalizeLabel(LHdmiCable), normalizeLabel(LUmbrella)}

MissingId ==
  [prefix |-> <<"item">>, group |-> "other", slug |-> <<>>, tail |-> "carryon"]

TargetIds ==
  {appState.items[i].id : i \in {j \in 1..Len(appState.items) :
      normalizeLabel(appState.items[j].label) \in FocusLabels}}
  \cup {MissingId}

MoveBags == {"work", "attic"}

Templates ==
  { BUILT_IN_TEMPLATES[1],
    [id |-> <<"test", "merge">>, name |-> "Merge Template",
     items |-> << TemplateEntry(LUmbrella, "other", NoBag, Null),
                  TemplateEntry(LShirtPadded, "clothing", "carryOn", Num(4)),
                  TemplateEntry(LBlank, "other", "work", Null) >>] }

(***************************************************************************)
(* Actions: one per exported operation.                                    *)
(***************************************************************************)
UpdateTrip ==
  \E partial \in TripPartials :
    Step("updateTrip", partial, Null, updateTrip(appState, partial, now + 1))

GenerateChecklist ==
  \E weatherItems \in {Null} \cup {Some(w) : w \in WeatherDescriptorLists} :
    Step("generateChecklist", weatherItems, Null,
         generateChecklist(appState, weatherItems))

ReconcileWeatherItems ==
  \E weatherDescriptors \in WeatherDescriptorLists :
    Step("reconcileWeatherItems", weatherDescriptors, Null,
         reconcileWeatherItems(appState, weatherDescriptors))

EnsureUniqueOrMerge ==
  \E newItem \in CustomDescriptors, confirm \in BOOLEAN :
    LET out == ensureUniqueOrMerge(appState, newItem, confirm)
    IN  Step("ensureUniqueOrMerge", [newItem |-> newItem, confirm |-> confirm],
             out.result, out.state)

AddCustomItem ==
  \E label \in CustomLabels, confirm \in BOOLEAN :
    LET out == addCustomItem(appState, label, "other", confirm, now + 1)
    IN  Step("addCustomItem", [label |-> label, confirm |-> confirm],
             out.result, out.state)

ToggleItem ==
  \E id \in TargetIds :
    LET HasId(item) == item.id = id
        at == FirstIndex({i \in 1..Len(appState.items) : HasId(appState.items[i])})
        checked == IF at = 0 THEN TRUE ELSE ~appState.items[at].checked
    IN  Step("toggleItem", [id |-> id, checked |-> checked], Null,
             toggleItem(appState, id, checked))

DeleteItem ==
  \E id \in TargetIds :
    Step("deleteItem", id, Null, deleteItem(appState, id))

MoveItemToBag ==
  \E id \in TargetIds, bag \in MoveBags :
    LET out == moveItemToBag(appState, id, bag)
    IN  Step("moveItemToBag", [id |-> id, bag |-> bag], out.result, out.state)

ApplyTemplate ==
  \E template \in Templates, mode \in {"merge", "replace"} :
    LET out == applyTemplate(appState, template, mode, now + 1)
    IN  Step("applyTemplate", [template |-> template, mode |-> mode],
             out.result, out.state)

DiffTemplate ==
  \E template \in Templates :
    Step("diffTemplate", template, diffTemplate(appState, template), appState)

Next ==
  \/ UpdateTrip
  \/ GenerateChecklist
  \/ ReconcileWeatherItems
  \/ EnsureUniqueOrMerge
  \/ AddCustomItem
  \/ ToggleItem
  \/ DeleteItem
  \/ MoveItemToBag
  \/ ApplyTemplate
  \/ DiffTemplate

Spec == Init /\ [][Next]_vars

(***************************************************************************)
(* The dedup/merge engine on its own: dedupeItems applied to every list of *)
(* at most MaxLen items drawn from DedupeChoices.                          *)
(***************************************************************************)
MaxLen == 3

Unlabelled ==
  [id |-> MissingId, group |-> "other", label |-> <<>>, source |-> SrcBase,
   checked |-> TRUE, bag |-> "carryOn", quantity |-> 2]

DedupeChoices ==
  { [id |-> [prefix |-> SrcBase, group |-> "tech", slug |-> slugify(l),
             tail |-> LowerBag(b)],
     group |-> "tech", label |-> l, source |-> SrcBase, checked |-> c,
     bag |-> b, quantity |-> q] :
      l \in {LHdmiCable, LHdmiCableLoose}, c \in BOOLEAN,
      b \in {"carryOn", "work"}, q \in {0, 2, 3} }
  \cup {Unlabelled}

DedupeInputs ==
  UNION {[1..n -> DedupeChoices] : n \in 0..MaxLen}

InitDedupe ==
  /\ appState = initChecklist(0)
  /\ now = 0
  /\ last = NoOp
  /\ \E items \in DedupeInputs :
       probe = [fn |-> "dedupeItems", in |-> items, out |-> Null]
  /\ PlatformAtRest

DedupeCall ==
  /\ probe.fn = "dedupeItems"
  /\ probe.out = Null
  /\ probe' = [probe EXCEPT !.out = Some(dedupeItems(probe.in))]
  /\ UNCHANGED <<appState, now, last, platform>>

NextDedupe == DedupeCall

SpecDedupe == InitDedupe /\ [][NextDedupe]_vars

DedupeDone == probe.fn = "dedupeItems" /\ probe.out # Null

\* the occurrences of a key among the labelled items of a list
Occurrences(items, key) ==
  {i \in 1..Len(items) :
     items[i].label # <<>> /\ getConflictKeyFromItem(items[i]) = key}

FirstOccurrence(items, key) ==
  CHOOSE i \in Occurrences(items, key) :
    \A j \in Occurrences(items, key) : i <= j

RECURSIVE SumQuantity(_, _)
SumQuantity(items, indices) ==
  IF indices = {} THEN 0
  ELSE LET i == CHOOSE j \in indices : TRUE
       IN  items[i].quantity + SumQuantity(items, indices \ {i})

UniqueKeys(items) ==
  \A i, j \in 1..Len(items) :
    i # j => getConflictKeyFromItem(items[i]) # getConflictKeyFromItem(items[j])

\* C6: dedupe returns a list without two items of the same conflict key,
\* holding exactly the keys of the labelled input items, in the order of
\* their first occurrence in the input.
DedupeUniqueOrdered ==
  DedupeDone =>
    LET in == probe.in
        out == probe.out[1]
    IN  /\ UniqueKeys(out)
        /\ KeysOf(out) = {getConflictKeyFromItem(in[i]) :
                            i \in {j \in 1..Len(in) : in[j].label # <<>>}}
        /\ \A a, b \in 1..Len(out) :
             a < b =>
               FirstOccurrence(in, getConflictKeyFromItem(out[a]))
                 < FirstOccurrence(in, getConflictKeyFromItem(out[b]))

\* three inputs, the first and third of one key and the second of another
DedupeUniqueOrderedWitness ==
  /\ DedupeDone
  /\ Len(probe.in) = 3
  /\ Len(probe.out[1]) = 2
  /\ getConflictKeyFromItem(probe.in[1]) = getConflictKeyFromItem(probe.in[3])
  /\ probe.in[1].label # probe.in[3].label
  /\ probe.out[1][2].label = probe.in[2].label

\* C7: the quantity of a merged item is the sum of the quantities present
\* among its occurrences, and unset when none is present.
DedupeSumsQuantities ==
  DedupeDone =>
    LET in == probe.in
        out == probe.out[1]
    IN  \A a \in 1..Len(out) :
          out[a].quantity =
            SumQuantity(in, Occurrences(in, getConflictKeyFromItem(out[a])))

\* 2 + 3 + 2 for three occurrences of one key
DedupeSumsQuantitiesWitness ==
  /\ DedupeDone
  /\ Len(probe.in) = 3
  /\ Len(probe.out[1]) = 1
  /\ probe.in[1].quantity = 2
  /\ probe.in[2].quantity = 3
  /\ probe.in[3].quantity = 2
  /\ probe.out[1][1].quantity = 7

\* C8: a merged item is checked exactly if one of its occurrences was.
DedupeChecksIfAny ==
  DedupeDone =>
    LET in == probe.in
        out == probe.out[1]
    IN  \A a \in 1..Len(out) :
          out[a].checked <=>
            \E i \in Occurrences(in, getConflictKeyFromItem(out[a])) :
              in[i].checked

\* the first occurrence unchecked, a later one checked
DedupeChecksIfAnyWitness ==
  /\ DedupeDone
  /\ Len(probe.in) = 2
  /\ Len(probe.out[1]) = 1
  /\ ~probe.in[1].checked
  /\ probe.in[2].checked
  /\ probe.out[1][1].checked

(***************************************************************************)
(* Longer runs on one custom item: 'HDMI Cable' is added, moved between    *)
(* bags, toggled and the list regenerated, up to MaxFocusOps operations.   *)
(***************************************************************************)
MaxFocusOps == 6

FocusDescriptor ==
  [Descriptor("tech", LHdmiCable, SrcCustom) EXCEPT !.bag = "carryOn"]

FocusIds ==
  {appState.items[i].id : i \in {j \in 1..Len(appState.items) :
      normalizeLabel(appState.items[j].label) = normalizeLabel(LHdmiCable)}}

FocusEnsure ==
  \E confirm \in BOOLEAN :
    LET out == ensureUniqueOrMerge(appState, FocusDescriptor, confirm)
    IN  StepWithin(MaxFocusOps, "ensureUniqueOrMerge",
                   [newItem |-> FocusDescriptor, confirm |-> confirm],
                   out.result, out.state)

FocusMove ==
  \E id \in FocusIds, bag \in MoveBags :
    LET out == moveItemToBag(appState, id, bag)
    IN  StepWithin(MaxFocusOps, "moveItemToBag", [id |-> id, bag |-> bag],
                   out.result, out.state)

FocusToggle ==
  \E id \in FocusIds :
    LET HasId(item) == item.id = id
        at == FirstIndex({i \in 1..Len(appState.items) : HasId(appState.items[i])})
        checked == ~appState.items[at].checked
    IN  StepWithin(MaxFocusOps, "toggleItem",
                   [id |-> id, checked |-> checked], Null,
                   toggleItem(appState, id, checked))

FocusGenerate ==
  StepWithin(MaxFocusOps, "generateChecklist", Null, Null,
             generateChecklist(appState, Null))

FocusReconcile ==
  \E weatherDescriptors \in {<< Descriptor("other", LUmbrella, SrcWeather) >>} :
    StepWithin(MaxFocusOps, "reconcileWeatherItems", weatherDescriptors, Null,
               reconcileWeatherItems(appState, weatherDescriptors))

FocusApply ==
  \E template \in {BUILT_IN_TEMPLATES[1]}, mode \in {"merge", "replace"} :
    LET out == applyTemplate(appState, template, mode, now + 1)
    IN  StepWithin(MaxFocusOps, "applyTemplate",
                   [template |-> template, mode |-> mode],
                   out.result, out.state)

NextFocus ==
  \/ FocusEnsure
  \/ FocusApply
  \/ FocusReconcile
  \/ FocusMove
  \/ FocusToggle
  \/ FocusGenerate

SpecFocus == Init /\ [][NextFocus]_vars

(***************************************************************************)
(* Properties of the checklist state machine.                              *)
(***************************************************************************)
Items == appState.items

Before == last.before.items

IsRuleSource(source) ==
  source = SrcBase \/ source = SrcDuration
  \/ (source # <<>> /\ source[1] = "activity")

\* C1: no two items of the list share a conflict key.
NoDuplicateKeys == UniqueKeys(Items)

\* C2: generateChecklist and reconcileWeatherItems keep the checked flag of
\* every item whose conflict key is in the list before and after.
CheckedFlagKept ==
  last.op \in {"generateChecklist", "reconcileWeatherItems"} =>
    \A i \in 1..Len(Before), j \in 1..Len(Items) :
      getConflictKeyFromItem(Before[i]) = getConflictKeyFromItem(Items[j])
        => Items[j].checked = Before[i].checked

\* C3: generateChecklist leaves every custom item in the list, with all its
\* fields as they were.
CustomItemsUntouched ==
  last.op = "generateChecklist" =>
    \A i \in 1..Len(Before) :
      Before[i].source = SrcCustom =>
        \E j \in 1..Len(Items) : Items[j] = Before[i]

\* C4: a rule-derived item that the user moved out of the carry-on and that
\* the trip still produces is, after generateChecklist, still in the bag it
\* was moved to, with its checked flag, and there is no copy of it in the
\* carry-on.
BagPlacementKept ==
  last.op = "generateChecklist" =>
    \A i \in 1..Len(Before) :
      LET moved == Before[i]
          fresh == buildBaseItems(appState.trip)
          SameLabel(item) ==
            normalizeLabel(item.label) = normalizeLabel(moved.label)
      IN  (/\ IsRuleSource(moved.source)
           /\ moved.bag # "carryOn"
           /\ \E k \in 1..Len(fresh) : SameLabel(fresh[k]))
          => /\ \E j \in 1..Len(Items) :
                  /\ SameLabel(Items[j])
                  /\ Items[j].bag = moved.bag
                  /\ Items[j].checked = moved.checked
             /\ \A j \in 1..Len(Items) :
                  SameLabel(Items[j]) => Items[j].bag # "carryOn"

\* C5: a quantity is absent or a positive integer of at most 99.
QuantityAtMost99 ==
  \A i \in 1..Len(Items) : Items[i].quantity \in 0..99

QuantityOrOne(item) == IF item.quantity # 0 THEN item.quantity ELSE 1

\* index in `items` of the first item with the conflict key of `candidate`
FirstWithKeyOf(items, candidate) ==
  LET SameKey(item) ==
        getConflictKeyFromItem(item) = getConflictKeyFromItem(candidate)
  IN  FirstIndex({i \in 1..Len(items) : SameKey(items[i])})

\* C9: ensureUniqueOrMerge of a valid candidate returns 'added' and appends
\* it when no item has its conflict key; when one has and the user confirms,
\* it returns 'merged', the list keeps its length and the quantity of that
\* item becomes its quantity plus the candidate's, a missing one counting 1.
EnsureAddsOrMerges ==
  (last.op = "ensureUniqueOrMerge" /\ createItem(last.arg.newItem) # Null) =>
    LET prepared == createItem(last.arg.newItem)[1]
        at == FirstWithKeyOf(Before, prepared)
    IN  /\ at = 0 =>
             /\ last.result.status = "added"
             /\ Items # <<>>
             /\ Items[Len(Items)] = prepared
             /\ UniqueKeys(Before) => Items = Append(Before, prepared)
        /\ (at # 0 /\ last.arg.confirm) =>
             /\ last.result.status = "merged"
             /\ Len(Items) = Len(Before)
             /\ Items[at].quantity
                  = QuantityOrOne(Before[at]) + QuantityOrOne(prepared)

\* 'hdmi   cable' merged into 'HDMI Cable', which then has quantity 2
EnsureAddsOrMergesWitness ==
  /\ last.op = "ensureUniqueOrMerge"
  /\ last.result.status = "merged"
  /\ last.arg.newItem.label = LHdmiCableLoose
  /\ \E i \in 1..Len(Items) :
       /\ Items[i].label = LHdmiCable
       /\ Items[i].quantity = 2
       /\ Before[i].quantity = 0

\* C10: an add that does not succeed changes nothing: a blank label given to
\* addCustomItem, an invalid descriptor given to ensureUniqueOrMerge and a
\* declined confirmation leave the whole state as it was, and the last two
\* report 'cancelled'.
FailedAddChangesNothing ==
  /\ (last.op = "addCustomItem" /\ Trim(last.arg.label) = <<>>) =>
       appState = last.before
  /\ (last.op = "ensureUniqueOrMerge" /\ createItem(last.arg.newItem) = Null)
       => (last.result.status = "cancelled" /\ appState = last.before)
  /\ (/\ last.op = "ensureUniqueOrMerge"
      /\ createItem(last.arg.newItem) # Null
      /\ FirstWithKeyOf(Before, createItem(last.arg.newItem)[1]) # 0
      /\ ~last.arg.confirm)
       => (last.result.status = "cancelled" /\ appState = last.before)
  /\ (/\ last.op \in {"ensureUniqueOrMerge", "addCustomItem"}
      /\ last.result.status \notin {"added", "merged"})
       => appState = last.before

\* the second 'HDMI Cable' declined
FailedAddChangesNothingWitness ==
  /\ last.op = "ensureUniqueOrMerge"
  /\ last.result.status = "cancelled"
  /\ ~last.arg.confirm
  /\ last.result.item # Null
  /\ last.result.item[1].source = SrcCustom

(***************************************************************************)
(* moveItemToBag on a conflict.                                            *)
(***************************************************************************)
\* the bag moveItemToBag puts the item in
MoveTargetBag(bag) ==
  IF normalizeBagValue(bag) = NoBag THEN "carryOn" ELSE normalizeBagValue(bag)

\* index in `items` of the first item with this id, 0 when there is none
FirstWithId(items, id) ==
  FirstIndex({i \in 1..Len(items) : items[i].id = id})

\* `items` without the item at index `at`
WithoutIndex(items, at) ==
  SubSeq(items, 1, at - 1) \o SubSeq(items, at + 1, Len(items))

\* C11: moveItemToBag of an item whose label another item already has in the
\* target bag merges the two: the list is the list before without the moved
\* item and with the quantity of the other item replaced by the sum of both
\* quantities (a missing one counting 1), and no item has the moved id.
MoveMergesOnConflict ==
  (last.op = "moveItemToBag" /\ FirstWithId(Before, last.arg.id) # 0) =>
    LET at == FirstWithId(Before, last.arg.id)
        moved == Before[at]
        newKey == getConflictKey(moved.label, MoveTargetBag(last.arg.bag))
        others == {i \in 1..Len(Before) :
                     i # at /\ getConflictKeyFromItem(Before[i]) = newKey}
    IN  others # {} =>
          /\ Len(Items) = Len(Before) - 1
          /\ \A j \in 1..Len(Items) : Items[j].id # last.arg.id
          /\ \E c \in others :
               Items = WithoutIndex(
                         [Before EXCEPT ![c].quantity =
                            QuantityOrOne(Before[c]) + QuantityOrOne(moved)],
                         at)

\* an item moved into a bag that holds its label: one item of quantity 2 left
MoveMergesOnConflictWitness ==
  /\ last.op = "moveItemToBag"
  /\ last.result = "merged"
  /\ Len(Items) = Len(Before) - 1
  /\ \E j \in 1..Len(Items) :
       /\ Items[j].bag = "work"
       /\ Items[j].quantity = 2

(***************************************************************************)
(* reconcileWeatherItems.                                                  *)
(***************************************************************************)
\* the items of `items` that are not weather-sourced, in order
NonWeather(items) ==
  LET NotWeather(item) == item.source # SrcWeather
  IN  SelectSeq(items, NotWeather)

\* number of items of `items` with conflict key `key`
CountKey(items, key) ==
  Cardinality({i \in 1..Len(items) : getConflictKeyFromItem(items[i]) = key})

\* C12: reconcileWeatherItems(D) leaves the non-weather items as they were,
\* fields and order; afterwards every valid descriptor of D has exactly one
\* item with its conflict key and every weather-sourced item has the key of
\* a descriptor of D.
ReconcileReplacesOnlyWeather ==
  last.op = "reconcileWeatherItems" =>
    LET wanted == KeysOf(createWeatherItems(last.arg))
    IN  /\ NonWeather(Items) = NonWeather(Before)
        /\ \A key \in wanted : CountKey(Items, key) = 1
        /\ \A j \in 1..Len(Items) :
             Items[j].source = SrcWeather
               => getConflictKeyFromItem(Items[j]) \in wanted

\* ['Umbrella'] then ['Umbrella', 'Raincoat'] beside a custom item
ReconcileReplacesOnlyWeatherWitness ==
  /\ last.op = "reconcileWeatherItems"
  /\ Len(last.arg) = 2
  /\ \E i \in 1..Len(Before) :
       Before[i].source = SrcWeather /\ Before[i].label = LUmbrella
  /\ \E i \in 1..Len(Before) : Before[i].source = SrcCustom
  /\ CountKey(Items, getConflictKey(LUmbrella, "carryOn")) = 1
  /\ CountKey(Items, getConflictKey(LRaincoat, "carryOn")) = 1

(***************************************************************************)
(* Templates: merge, replace, diff.                                        *)
(***************************************************************************)
\* the items a template stands for: sanitized, then converted
TemplateItems(template) ==
  convertTemplateItems(sanitizeTemplateItems(template).items, template.id)

\* the items of `items` whose conflict key is in `keys` (or is not), in order
WithKeyIn(items, keys) ==
  LET Hit(item) == getConflictKeyFromItem(item) \in keys
  IN  SelectSeq(items, Hit)

WithKeyNotIn(items, keys) ==
  LET Miss(item) == getConflictKeyFromItem(item) \notin keys
  IN  SelectSeq(items, Miss)

\* the custom and weather items of `items`, in order
CustomAndWeather(items) ==
  LET Kept(item) == item.source = SrcCustom \/ item.source = SrcWeather
  IN  SelectSeq(items, Kept)

\* C13: applyTemplate(t, 'merge') keeps every item of the list as it was and
\* in place, appends exactly the template items whose conflict key was not
\* in the list, reports their number as `added` and the number of template
\* items whose key was in the list as `skipped`; the two add up to the
\* number of sanitized template items.
MergeKeepsExisting ==
  (last.op = "applyTemplate" /\ last.arg.mode = "merge") =>
    LET wanted == TemplateItems(last.arg.template)
        present == KeysOf(Before)
    IN  /\ Items = Before \o WithKeyNotIn(wanted, present)
        /\ last.result.added = Len(WithKeyNotIn(wanted, present))
        /\ last.result.skipped = Len(WithKeyIn(wanted, present))
        /\ last.result.added + last.result.skipped
             = Len(sanitizeTemplateItems(last.arg.template).items)

\* a merge that appends some template items and skips one already there
MergeKeepsExistingWitness ==
  /\ last.op = "applyTemplate"
  /\ last.arg.mode = "merge"
  /\ last.result.added > 0
  /\ last.result.skipped > 0
  /\ Len(Items) = Len(Before) + last.result.added

\* C14: applyTemplate(t, 'replace') of a non-empty template leaves the
\* template items whose key no custom or weather item has, followed by the
\* custom and weather items as they were; `replaced` is the number of other
\* items, `skipped` the number of template items left out.
ReplaceKeepsCustomAndWeather ==
  (/\ last.op = "applyTemplate"
   /\ last.arg.mode = "replace"
   /\ TemplateItems(last.arg.template) # <<>>) =>
    LET wanted == TemplateItems(last.arg.template)
        retained == CustomAndWeather(Before)
    IN  /\ Items = WithKeyNotIn(wanted, KeysOf(retained)) \o retained
        /\ last.result.replaced = Len(Before) - Len(retained)
        /\ last.result.skipped = Len(WithKeyIn(wanted, KeysOf(retained)))

\* a replace that drops rule items and skips the template's 'Umbrella'
\* because a retained item has its key
ReplaceKeepsCustomAndWeatherWitness ==
  /\ last.op = "applyTemplate"
  /\ last.arg.mode = "replace"
  /\ last.result.replaced > 0
  /\ last.result.skipped > 0
  /\ last.result.added > 0
  /\ CustomAndWeather(Before) # <<>>

\* the operation before the last one was applyTemplate(t, 'replace') of the
\* template of the last one
SameReplaceBefore ==
  /\ last.op = "applyTemplate"
  /\ last.arg.mode = "replace"
  /\ last.before.meta.lastTemplate # Null
  /\ last.before.meta.lastTemplate[1].id = last.arg.template.id
  /\ last.before.meta.lastTemplate[1].mode = "replace"
  /\ last.before.meta.lastTemplate[1].appliedAt = now - 1

\* C15: the second of two applyTemplate(t, 'replace') in a row leaves the
\* item list as the first left it.
ReplaceIdempotent == SameReplaceBefore => Items = Before

\* the second replace drops and puts back the template items
ReplaceIdempotentWitness ==
  /\ SameReplaceBefore
  /\ last.result.replaced > 0
  /\ last.result.added > 0

TEMPLATE_ITEM_LIMIT == 500

\* a template of `count` items with numbered labels
NumberedTemplate(count) ==
  [id |-> <<"tpl", "numbered">>, name |-> "Numbered",
   items |-> [i \in 1..count |->
                TemplateEntry(NumberedLabel(i - 1), "other", "carryOn", Null)]]

LowerCase(text) == [i \in 1..Len(text) |-> Lower(text[i])]

\* the forEach of onSaveTemplateFromCurrent: one entry per lower-cased label
\* and bag; the keys seen and the entries kept once `pool` is through
RECURSIVE savePool(_, _, _)
savePool(pool, keys, items) ==
  IF pool = <<>> THEN [keys |-> keys, items |-> items]
  ELSE IF Len(pool) > 1
    THEN LET left == savePool(SubSeq(pool, 1, Len(pool) \div 2), keys, items)
         IN  After(left,
                   savePool(SubSeq(pool, Len(pool) \div 2 + 1, Len(pool)),
                            left.keys, left.items))
  ELSE LET item == pool[1]
           normalizedBag == IF normalizeBagValue(item.bag) = NoBag
                              THEN "carryOn" ELSE normalizeBagValue(item.bag)
           key == <<LowerCase(item.label), normalizedBag>>
       IN  IF item.label = <<>> \/ key \in keys
             THEN [keys |-> keys, items |-> items]
           ELSE [keys |-> keys \cup {key},
                 items |-> Append(items,
                                  [label |-> item.label, group |-> item.group,
                                   bag |-> normalizedBag,
                                   qty |-> IF item.quantity = 0 THEN Null
                                           ELSE Num(2 * item.quantity)])]

\* onSaveTemplateFromCurrent: the saved template, none when the name is blank
\* or nothing is left to save
saveTemplateFromCurrent(state, name, includeWeather) ==
  LET InPool(item) == includeWeather \/ item.source # SrcWeather
      items == savePool(SelectSeq(state.items, InPool), {}, <<>>).items
      truncated == Len(items) > TEMPLATE_ITEM_LIMIT
  IN  IF Trim(name) = <<>> \/ items = <<>> THEN Null
      ELSE Some([name |-> Trim(name),
                 items |-> IF truncated
                             THEN SubSeq(items, 1, TEMPLATE_ITEM_LIMIT)
                           ELSE items,
                 truncated |-> truncated])

CapStep(op, arg, result, nextState) ==
  /\ appState' = nextState
  /\ last' = [op |-> op, arg |-> arg, result |-> result, before |-> appState]
  /\ UNCHANGED <<now, probe, platform>>

CapSizes ==
  {MAX_TEMPLATE_ITEMS - 1, MAX_TEMPLATE_ITEMS, MAX_TEMPLATE_ITEMS + 1}

CapApply ==
  \E count \in CapSizes, mode \in {"merge", "replace"} :
    LET out == applyTemplate(appState, NumberedTemplate(count), mode, now + 1)
    IN  CapStep("applyTemplate", [count |-> count, mode |-> mode],
                out.result, out.state)

CapDiff ==
  \E count \in CapSizes :
    CapStep("diffTemplate", [count |-> count],
            diffTemplate(appState, NumberedTemplate(count)), appState)

CapSave ==
  \E name \in {LHdmiCable, LShirtPadded, LBlank}, includeWeather \in BOOLEAN :
    CapStep("saveTemplateFromCurrent",
            [name |-> name, includeWeather |-> includeWeather],
            saveTemplateFromCurrent(appState, name, includeWeather), appState)

NextCap ==
  \/ CapApply
  \/ CapDiff
  \/ CapSave

SpecCap == Init /\ [][NextCap]_vars

\* the items of `items` that carry a numbered label
Numbered(items) ==
  LET IsNumbered(item) == \E n \in 0..MAX_TEMPLATE_ITEMS : item.label = NumberedLabel(n)
  IN  SelectSeq(items, IsNumbered)

HasLabel(items, label) == \E i \in 1..Len(items) : items[i].label = label

(***************************************************************************)
(* C17: a template never contributes more than 500 items.  A template of   *)
(* `count` distinct labels applied in either mode reports truncated        *)
(* exactly when count > 500, counts at most 500 items as added or skipped, *)
(* leaves its first min(count, 500) labels on the list and none of the     *)
(* labels past the 500th; and a template saved from the list holds at most *)
(* 500 items, the first 500 of the list it was saved from.                 *)
(***************************************************************************)
TemplateCapHolds ==
  /\ last.op = "applyTemplate" /\ "count" \in DOMAIN last.arg =>
       /\ last.result.truncated = (last.arg.count > 500)
       /\ last.result.added + last.result.skipped
            = IF last.arg.count > 500 THEN 500 ELSE last.arg.count
       /\ \A n \in 0..MAX_TEMPLATE_ITEMS :
            HasLabel(Items, NumberedLabel(n))
              = \/ n < 500 /\ n < last.arg.count
                \/ last.arg.mode = "merge" /\ HasLabel(Before, NumberedLabel(n))
       /\ ~HasLabel(Items, NumberedLabel(500))
       /\ Len(Numbered(Items)) <= 500
  /\ last.op = "saveTemplateFromCurrent" /\ last.result # Null =>
       /\ Len(last.result[1].items) <= 500
       /\ last.result[1].truncated = (Len(Items) > 500)
       /\ \A i \in 1..Len(last.result[1].items) :
            last.result[1].items[i].label = Items[i].label

\* a template of 501 items has replaced a list of more than 500 items
TemplateCapHoldsWitness ==
  /\ last.op = "applyTemplate" /\ "count" \in DOMAIN last.arg
  /\ last.arg.count = MAX_TEMPLATE_ITEMS + 1
  /\ last.arg.mode = "replace"
  /\ last.result.truncated
  /\ Len(Before) > 500
  /\ Len(Items) = 500
(***************************************************************************)
(* Share links.  JavaScript values as the codec sees them: a value carries *)
(* its type, a string its text (a sequence of characters, an item id or a  *)
(* plain string), an object its own properties.                            *)
(***************************************************************************)
SHARE_PARAM == "s"

LEGACY_PARAM == "state"

SHARE_KEY_VERSION == 1

Undefined == [type |-> "undefined"]

JsNull == [type |-> "null"]

JsBoolean(b) == [type |-> "boolean", bool |-> b]

JsNumber(n) == [type |-> "number", num |-> n]

\* NaN, Infinity
JsNotFinite == [type |-> "number", finite |-> FALSE]

\* a string that is not empty
JsString(text) == [type |-> "string", text |-> text, empty |-> FALSE]

\* a plain string of the state, such as the city
JsPlain(text) == [type |-> "string", text |-> text, empty |-> text = ""]

JsArray(elems) == [type |-> "array", elems |-> elems]

JsObject(props) == [type |-> "object", props |-> props]

\* value == null (null or undefined), the test of `??`
IsNullish(value) == value.type \in {"undefined", "null"}

\* a ?? b
OrElse(value, default) == IF IsNullish(value) THEN default ELSE value

\* !value
IsFalsy(value) ==
  \/ IsNullish(value)
  \/ value = JsBoolean(FALSE)
  \/ value = JsNumber(0)
  \/ value = JsNotFinite
  \/ value.type = "string" /\ value.empty

\* value[key] of a value that is not nullish: an own property of an object,
\* undefined on arrays, strings, numbers and booleans (the keys are letters)
Get(value, key) ==
  IF value.type = "object" /\ key \in DOMAIN value.props
    THEN value.props[key]
    ELSE Undefined

\* what a try block yields: a value, or the exception that left it
Returned(value) == [threw |-> FALSE, value |-> value]

Thrown == [threw |-> TRUE]

(***************************************************************************)
(* JSON.stringify and JSON.parse.  A text is known by what JSON.parse      *)
(* makes of it: a value, or a SyntaxError.                                 *)
(***************************************************************************)
NotJson == [json |-> Null]

\* the value JSON.stringify writes for `value`: properties that are
\* undefined are left out, numbers that are not finite and undefined array
\* elements become null
RECURSIVE AsJson(_)
AsJson(value) ==
  CASE value.type = "object" ->
         LET kept == {k \in DOMAIN value.props : value.props[k] # Undefined}
         IN  JsObject([k \in kept |-> AsJson(value.props[k])])
    [] value.type = "array" ->
         JsArray([i \in 1..Len(value.elems) |->
                    IF value.elems[i] = Undefined THEN JsNull
                    ELSE AsJson(value.elems[i])])
    [] value = JsNotFinite -> JsNull
    [] OTHER -> value

JSONstringify(value) == [json |-> Some(AsJson(value))]

JSONparse(text) ==
  IF text.json = Null THEN Thrown ELSE Returned(text.json[1])

(***************************************************************************)
(* Base64.  A string of base64 digits is known by the bytes its digits     *)
(* stand for ('+' and '-' are both the digit 62, '/' and '_' the digit     *)
(* 63), by the characters in it that are not letters or numerals, in       *)
(* order, by its number of digits modulo 4 and by the '=' at its end; as a *)
(* query parameter it is present and not empty.                            *)
(* Bytes are known by the text they are the UTF-8 encoding of, if any.     *)
(***************************************************************************)
NotUtf8 == [utf8 |-> Null]

\* unescape(encodeURIComponent(str))
Utf8Of(text) == [utf8 |-> Some(text)]

\* decodeURIComponent(escape(bytes)): a URIError when the bytes are no UTF-8
Utf8Decode(bytes) ==
  IF bytes.utf8 = Null THEN Thrown ELSE Returned(bytes.utf8[1])

\* str.replace(/from/g, to) on the marks of a string
RECURSIVE ReplaceAll(_, _, _)
ReplaceAll(marks, from, to) ==
  IF marks = <<>> THEN <<>>
  ELSE <<IF Head(marks) = from THEN to ELSE Head(marks)>>
       \o ReplaceAll(Tail(marks), from, to)

\* window.btoa(bytes): `shape` is what the bytes make of the result, the '+'
\* and '/' among its digits and the number of bytes modulo 3
btoa(bytes, shape) ==
  [present |-> TRUE, empty |-> FALSE, bytes |-> bytes, marks |-> shape.marks,
   digits |-> CASE shape.bytes = 0 -> 0 [] shape.bytes = 1 -> 2 [] OTHER -> 3,
   pad |-> CASE shape.bytes = 0 -> 0 [] shape.bytes = 1 -> 2 [] OTHER -> 1]

\* window.atob(str), the forgiving-base64 decode: up to two '=' are dropped
\* from the end of a string whose length is a multiple of 4; a string left
\* with a character outside the alphabet, or with one digit more than a
\* multiple of 4, is an InvalidCharacterError
atob(str) ==
  LET dropped == (str.digits + str.pad) % 4 = 0 /\ str.pad <= 2
      padLeft == IF dropped THEN 0 ELSE str.pad
  IN  IF \/ padLeft > 0
         \/ \E i \in 1..Len(str.marks) : str.marks[i] \notin {"+", "/"}
         \/ str.digits % 4 = 1
        THEN Thrown
        ELSE Returned(str.bytes)

base64UrlEncode(text, shape) ==
  LET standard == btoa(Utf8Of(text), shape)
  IN  [standard EXCEPT
         !.marks = ReplaceAll(ReplaceAll(standard.marks, "+", "-"), "/", "_"),
         !.pad = 0]

base64UrlDecode(str) ==
  LET normalized ==
        [str EXCEPT !.marks = ReplaceAll(ReplaceAll(str.marks, "-", "+"),
                                         "_", "/")]
      length == normalized.digits + normalized.pad
      padLength == IF length % 4 = 0 THEN 0 ELSE 4 - (length % 4)
      padded == [normalized EXCEPT !.pad = normalized.pad + padLength]
      bytes == atob(padded)
  IN  IF bytes.threw THEN Thrown ELSE Utf8Decode(bytes.value)

(***************************************************************************)
(* The state as the codec reads it, and the payload with its short keys.   *)
(***************************************************************************)
\* item.quantity of the state: absent when the item has none
JsItem(item) ==
  JsObject([id |-> JsString(item.id), group |-> JsString(item.group),
            label |-> JsString(item.label), checked |-> JsBoolean(item.checked),
            source |-> JsString(item.source), bag |-> JsString(item.bag),
            quantity |-> IF item.quantity = 0 THEN Undefined
                         ELSE JsNumber(item.quantity)])

JsTrip(trip) ==
  JsObject([city |-> JsPlain(trip.city), country |-> JsPlain(trip.country),
            durationDays |-> JsNumber(trip.durationDays),
            activities |-> JsArray([i \in 1..Len(trip.activities) |->
                                      JsString(trip.activities[i])]),
            generatedAt |-> JsString(trip.generatedAt)])

JsState(state) ==
  JsObject([trip |-> JsTrip(state.trip),
            items |-> JsArray([i \in 1..Len(state.items) |->
                                 JsItem(state.items[i])]),
            weather |-> IF state.weather = Null THEN JsNull
                        ELSE state.weather[1]])

isFiniteNumber(value) == value.type = "number" /\ value # JsNotFinite

\* Number(value) of a JSON value, kept when finite
nullableNumber(value) ==
  IF IsNullish(value) THEN JsNull
  ELSE IF isFiniteNumber(value) THEN value
  ELSE IF value.type = "boolean" THEN JsNumber(IF value.bool THEN 1 ELSE 0)
  ELSE IF value.type = "string" /\ value.empty THEN JsNumber(0)
  ELSE JsNull

compressTrip(trip) ==
  JsObject([c |-> OrElse(Get(trip, "city"), JsPlain("")),
            o |-> OrElse(Get(trip, "country"), JsPlain("")),
            d |-> OrElse(Get(trip, "durationDays"), JsNumber(3)),
            a |-> IF Get(trip, "activities").type = "array"
                    THEN Get(trip, "activities") ELSE JsArray(<<>>),
            g |-> OrElse(Get(trip, "generatedAt"), JsNull)])

compressItem(item) ==
  JsObject([i |-> Get(item, "id"), g |-> Get(item, "group"),
            l |-> Get(item, "label"),
            k |-> JsNumber(IF IsFalsy(Get(item, "checked")) THEN 0 ELSE 1),
            s |-> Get(item, "source")])

compressWeather(weather) ==
  LET Finite(key) == IF isFiniteNumber(Get(weather, key))
                       THEN Get(weather, key) ELSE JsNull
  IN  JsObject([y |-> OrElse(Get(weather, "summary"), JsPlain("")),
                tc |-> Finite("tempC"), mn |-> Finite("minC"),
                mx |-> Finite("maxC"), p |-> Finite("precipitation"),
                u |-> OrElse(Get(weather, "lastUpdated"), JsNull)])

\* an absent query parameter; the empty string
NoParam == [present |-> FALSE, empty |-> TRUE]

EmptyString == [present |-> TRUE, empty |-> TRUE]

\* params.get(name) of new URLSearchParams(search)
ParamGet(search, name) ==
  IF name \in DOMAIN search THEN search[name] ELSE NoParam

\* if (param)
HasText(param) == param.present /\ ~param.empty

\* the query string of the URL that serializeStateToURL returns for a state
serializeStateToURL(state, shape) ==
  LET weather == IF IsFalsy(Get(state, "weather")) THEN Undefined
                 ELSE compressWeather(Get(state, "weather"))
      items == OrElse(Get(state, "items"), JsArray(<<>>))
      payload ==
        JsObject([v |-> JsNumber(SHARE_KEY_VERSION),
                  t |-> compressTrip(OrElse(Get(state, "trip"),
                                            JsObject(<<>>))),
                  i |-> JsArray([n \in 1..Len(items.elems) |->
                                   compressItem(items.elems[n])]),
                  w |-> weather])
  IN  [s |-> base64UrlEncode(JSONstringify(payload), shape), state |-> NoParam]

\* Number.parseInt(value, 10) || 3 for a number or a text that is no numeral
ParseDuration(value) ==
  IF isFiniteNumber(value) /\ value.num # 0 THEN value ELSE JsNumber(3)

\* the object made of an element of the items payload; null has no properties
\* to read (a TypeError)
expandItem(item) ==
  IF IsNullish(item) THEN Thrown
  ELSE Returned(JsObject(
         [id |-> Get(item, "i"), group |-> Get(item, "g"),
          label |-> Get(item, "l"),
          checked |-> JsBoolean(~IsFalsy(Get(item, "k"))),
          source |-> OrElse(Get(item, "s"), JsString(SrcBase))]))

expandPayload(payload) ==
  LET tripPayload == OrElse(Get(payload, "t"), JsObject(<<>>))
      itemsPayload == IF Get(payload, "i").type = "array"
                        THEN Get(payload, "i").elems ELSE <<>>
      weatherPayload == OrElse(Get(payload, "w"), JsNull)
      expanded == [n \in 1..Len(itemsPayload) |-> expandItem(itemsPayload[n])]
      Kept(item) == /\ ~IsFalsy(Get(item.value, "id"))
                    /\ ~IsFalsy(Get(item.value, "label"))
                    /\ ~IsFalsy(Get(item.value, "group"))
      kept == SelectSeq(expanded, Kept)
      weather ==
        IF IsFalsy(weatherPayload) THEN JsNull
        ELSE JsObject(
               [summary |-> OrElse(Get(weatherPayload, "y"), JsPlain("")),
                tempC |-> nullableNumber(Get(weatherPayload, "tc")),
                minC |-> nullableNumber(Get(weatherPayload, "mn")),
                maxC |-> nullableNumber(Get(weatherPayload, "mx")),
                precipitation |-> nullableNumber(Get(weatherPayload, "p")),
                lastUpdated |-> OrElse(Get(weatherPayload, "u"), JsNull)])
  IN  IF IsFalsy(payload) \/ payload.type \notin {"object", "array"}
        THEN Returned(JsNull)
      ELSE IF \E n \in 1..Len(expanded) : expanded[n].threw THEN Thrown
      ELSE Returned(JsObject(
             [trip |-> JsObject(
                [city |-> OrElse(Get(tripPayload, "c"), JsPlain("")),
                 country |-> OrElse(Get(tripPayload, "o"), JsPlain("")),
                 durationDays |->
                   ParseDuration(OrElse(Get(tripPayload, "d"), JsNumber(3))),
                 activities |-> IF Get(tripPayload, "a").type = "array"
                                  THEN Get(tripPayload, "a") ELSE JsArray(<<>>),
                 generatedAt |-> OrElse(Get(tripPayload, "g"), JsNull)]),
              items |-> JsArray([n \in 1..Len(kept) |-> kept[n].value]),
              weather |-> weather]))

\* try { return outcome } catch (err) { return fallback }
Catch(outcome, fallback) ==
  IF outcome.threw THEN Returned(fallback) ELSE outcome

\* deserializeStateFromURL that reads the parameter `s` only
deserializeStateFromURLModernOnly(search) ==
  LET encoded == ParamGet(search, SHARE_PARAM)
      text == base64UrlDecode(encoded)
      json == IF text.threw THEN Thrown ELSE JSONparse(text.value)
      expanded == IF json.threw THEN Thrown ELSE expandPayload(json.value)
  IN  IF HasText(encoded) THEN Catch(expanded, JsNull)
      ELSE Returned(JsNull)

\* what a call with a query string comes to: the state returned (null when
\* there is none), or an exception
deserializeStateFromURL(search) ==
  LET encoded == ParamGet(search, SHARE_PARAM)
      legacy == ParamGet(search, LEGACY_PARAM)
      text == base64UrlDecode(encoded)
      json == IF text.threw THEN Thrown ELSE JSONparse(text.value)
      expanded == IF json.threw THEN Thrown ELSE expandPayload(json.value)
      legacyBytes == atob(legacy)
      legacyText == IF legacyBytes.threw THEN Thrown
                    ELSE Utf8Decode(legacyBytes.value)
      legacyJson == IF legacyText.threw THEN Thrown
                    ELSE JSONparse(legacyText.value)
  IN  IF HasText(encoded) THEN Catch(expanded, JsNull)
      ELSE IF HasText(legacy) THEN Catch(legacyJson, JsNull)
      ELSE Returned(JsNull)

setWeatherData(state, weather) == [state EXCEPT !.weather = Some(weather)]

(***************************************************************************)
(* Sharing: the list is changed a little (a custom item with a quantity,   *)
(* an item moved to another bag or checked, weather set), the state is     *)
(* put into a link and read back, and query strings of any make are        *)
(* decoded; up to MaxShareOps operations.                                  *)
(***************************************************************************)
MaxShareOps == 3

ShareDescriptor ==
  [Descriptor("tech", LHdmiCable, SrcCustom) EXCEPT !.bag = "carryOn",
                                                    !.qty = Num(4)]

WeatherReports ==
  << JsObject([summary |-> JsString("Rain"), tempC |-> JsNumber(12),
               minC |-> JsNumber(6), maxC |-> JsNumber(14),
               precipitation |-> JsNumber(3),
               lastUpdated |-> JsString("07:50")]),
     JsObject([summary |-> JsString("Clear"), tempC |-> JsNumber(21),
               minC |-> JsNull, maxC |-> JsNull,
               precipitation |-> JsNumber(0), lastUpdated |-> JsNull]) >>

\* what the bytes of a payload can make of its base64 text
Base64Shapes ==
  [marks : {<<>>, <<"+", "/">>}, bytes : 0..2]

ShareEnsure ==
  LET out == ensureUniqueOrMerge(appState, ShareDescriptor, TRUE)
  IN  StepWithin(MaxShareOps, "ensureUniqueOrMerge",
                 [newItem |-> ShareDescriptor, confirm |-> TRUE],
                 out.result, out.state)

ShareMove ==
  \E bag \in {"work"} :
    LET id == appState.items[1].id
        out == moveItemToBag(appState, id, bag)
    IN  StepWithin(MaxShareOps, "moveItemToBag", [id |-> id, bag |-> bag],
                   out.result, out.state)

ShareToggle ==
  LET id == appState.items[1].id
      checked == ~appState.items[1].checked
  IN  StepWithin(MaxShareOps, "toggleItem", [id |-> id, checked |-> checked],
                 Null, toggleItem(appState, id, checked))

ShareSetWeather ==
  \E n \in 1..Len(WeatherReports) :
    StepWithin(MaxShareOps, "setWeatherData", WeatherReports[n], Null,
               setWeatherData(appState, WeatherReports[n]))

\* serializeStateToURL(getAppState()), then deserializeStateFromURL on the
\* query string of the link
ShareRoundTrip ==
  \E shape \in Base64Shapes :
    StepWithin(MaxShareOps, "shareRoundTrip", shape,
               deserializeStateFromURL(
                 serializeStateToURL(JsState(appState), shape)),
               appState)

\* a string of base64 digits written out
Base64Text(bytes, marks, digits, pad) ==
  [present |-> TRUE, empty |-> FALSE, bytes |-> bytes, marks |-> marks,
   digits |-> digits, pad |-> pad]

\* the base64url text of a JSON text
Encoded(value) ==
  Base64Text(Utf8Of([json |-> Some(value)]), <<"-", "_">>, 3, 0)

SharedDefault ==
  serializeStateToURL(JsState(initChecklist(0)),
                      [marks |-> <<"+", "/">>, bytes |-> 1]).s

\* values of the parameter `s`: none, the empty string, a link of the
\* application, texts that are no base64, bytes that are no UTF-8, text that
\* is no JSON ('invalidpayload'), and JSON of other shapes
ModernParams ==
  << NoParam, EmptyString, SharedDefault,
     [SharedDefault EXCEPT !.marks = <<"*">>],
     [SharedDefault EXCEPT !.digits = 1],
     [SharedDefault EXCEPT !.pad = 2],
     Base64Text(NotUtf8, <<>>, 0, 0),
     Base64Text(Utf8Of(NotJson), <<>>, 2, 0),
     Encoded(JsNull), Encoded(JsNumber(5)), Encoded(JsString("x")),
     Encoded(JsArray(<<>>)), Encoded(JsObject(<<>>)),
     Encoded(JsObject([i |-> JsArray(<<JsNull>>)])),
     Encoded(JsObject([t |-> JsNumber(5), i |-> JsString("x"),
                       w |-> JsNumber(7)])) >>

LegacyDefault ==
  Base64Text(Utf8Of(JSONstringify(JsState(initChecklist(0)))),
             <<"+", "/">>, 2, 2)

\* values of the parameter `state`: none, the empty string, a link of the
\* earlier release, the same in the base64url alphabet, text that is no JSON
LegacyParams ==
  << NoParam, EmptyString, LegacyDefault,
     [LegacyDefault EXCEPT !.marks = <<"-", "_">>, !.pad = 0],
     Base64Text(Utf8Of(NotJson), <<>>, 0, 0) >>

\* a legacy parameter beside no, an empty, a good and a bad modern one
WithLegacy(legacy) ==
  [n \in 1..4 |-> [s |-> ModernParams[n], state |-> legacy]]

QueryStrings ==
  [n \in 1..Len(ModernParams) |-> [s |-> ModernParams[n], state |-> NoParam]]
  \o WithLegacy(LegacyParams[2]) \o WithLegacy(LegacyParams[3])
  \o WithLegacy(LegacyParams[4]) \o WithLegacy(LegacyParams[5])

ShareDecode ==
  \E n \in 1..Len(QueryStrings) :
    StepWithin(MaxShareOps, "deserializeStateFromURL", QueryStrings[n],
               deserializeStateFromURL(QueryStrings[n]), appState)

NextShare ==
  \/ ShareEnsure
  \/ ShareMove
  \/ ShareToggle
  \/ ShareSetWeather
  \/ ShareRoundTrip
  \/ ShareDecode

SpecShare == Init /\ [][NextShare]_vars
(***************************************************************************)
(* Properties of the share links.                                          *)
(***************************************************************************)
\* an item read from a link, with the bag of an item that names none
WithItemDefaults(item) ==
  JsObject([id |-> Get(item, "id"), group |-> Get(item, "group"),
            label |-> Get(item, "label"), checked |-> Get(item, "checked"),
            source |-> Get(item, "source"),
            bag |-> OrElse(Get(item, "bag"), JsString("carryOn")),
            quantity |-> Get(item, "quantity")])

Shared == last.result.value

TripReproduced == Get(Shared, "trip") = JsTrip(appState.trip)

WeatherReproduced ==
  Get(Shared, "weather")
    = IF appState.weather = Null THEN JsNull ELSE appState.weather[1]

ItemsReproduced ==
  /\ Get(Shared, "items").type = "array"
  /\ Len(Get(Shared, "items").elems) = Len(Items)
  /\ \A i \in 1..Len(Items) :
       WithItemDefaults(Get(Shared, "items").elems[i]) = JsItem(Items[i])

\* C18: the state read back from the link of a state has the trip, the
\* items (every field of every item, in order; an item without a bag is in
\* the carry-on) and the weather of that state.
RoundTripReproduces ==
  last.op = "shareRoundTrip" =>
    /\ ~last.result.threw
    /\ Shared.type = "object"
    /\ TripReproduced
    /\ ItemsReproduced
    /\ WeatherReproduced

\* the characters of a base64 or base64url text are digits of either
\* alphabet, and there is not one digit more than a multiple of 4
WellFormedBase64(param) ==
  /\ \A i \in 1..Len(param.marks) : param.marks[i] \in {"+", "/", "-", "_"}
  /\ param.digits % 4 # 1

\* the bytes of the text are the UTF-8 encoding of a JSON text
HoldsJson(param) ==
  /\ param.bytes.utf8 # Null
  /\ param.bytes.utf8[1].json # Null

JsonHeld(param) == param.bytes.utf8[1].json[1]

\* an object with a trip object and an items array
ExpectedShape(payload) ==
  /\ payload.type = "object"
  /\ Get(payload, "t").type = "object"
  /\ Get(payload, "i").type = "array"

\* C19: deserializeStateFromURL never throws, and returns null when the
\* share parameter is malformed base64, malformed JSON or JSON that is not
\* an object of the expected shape.
MalformedYieldsNull ==
  last.op = "deserializeStateFromURL" =>
    /\ ~last.result.threw
    /\ (/\ HasText(last.arg.s)
        /\ \/ ~WellFormedBase64(last.arg.s)
           \/ ~HoldsJson(last.arg.s)
           \/ ~ExpectedShape(JsonHeld(last.arg.s)))
       => last.result.value = JsNull

\* a text of the standard alphabet, padded to a multiple of 4 if at all,
\* that holds JSON
ValidLegacy(param) ==
  /\ HasText(param)
  /\ \A i \in 1..Len(param.marks) : param.marks[i] \in {"+", "/"}
  /\ param.digits % 4 # 1
  /\ param.pad = 0 \/ (param.digits + param.pad) % 4 = 0
  /\ HoldsJson(param)

WithoutLegacy(search) == [search EXCEPT !.state = NoParam]

\* C20 as claimed: without the parameter `s`, a `state` parameter that holds
\* a valid base64 JSON blob is decoded and returned; with the parameter `s`
\* present the result is that of `s` alone.
LegacyUsedOnlyWhenModernAbsent ==
  last.op = "deserializeStateFromURL" =>
    /\ ~last.arg.s.present /\ ValidLegacy(last.arg.state)
         => last.result = Returned(JsonHeld(last.arg.state))
    /\ last.arg.s.present
         => last.result = deserializeStateFromURL(WithoutLegacy(last.arg))

\* C20 as amended: without the parameter `s`, or with an empty one, a `state`
\* parameter that holds a valid base64 JSON blob is decoded and returned;
\* with a parameter `s` that is not empty the result is that of `s` alone.
LegacyUsedWhenModernEmpty ==
  last.op = "deserializeStateFromURL" =>
    /\ ~HasText(last.arg.s) /\ ValidLegacy(last.arg.state)
         => last.result = Returned(JsonHeld(last.arg.state))
    /\ HasText(last.arg.s)
         => last.result = deserializeStateFromURL(WithoutLegacy(last.arg))

\* a link of the earlier release has been decoded, and a link with both
\* parameters has given the state of `s`
LegacyUsedWhenModernEmptyWitness ==
  /\ last.op = "deserializeStateFromURL"
  /\ ~last.arg.s.present
  /\ ValidLegacy(last.arg.state)
  /\ last.result = Returned(JSONstringify(JsState(initChecklist(0))).json[1])
(***************************************************************************)
(* Weather lookups: fetchWeather of the weather module with its cache, and *)
(* requestWeatherUpdate of main.js.  A lookup is started by an event of    *)
(* the page and goes on when the network answers; everything between two   *)
(* awaits on the network is one step.  A lookup is known by the number of  *)
(* its AbortController.  The network may answer a request whose signal was *)
(* aborted before the abort reaches it.                                    *)
(***************************************************************************)
WEATHER_CACHE_TTL == 600000

\* toISOString().slice(0, 10): the UTC day of a time in milliseconds
MS_PER_DAY == 86400000

\* the lookups of one run
MaxLookups == 2

\* the run starts a cache lifetime before midnight
StartOfRun == MS_PER_DAY - WEATHER_CACHE_TTL - 1

\* the instants at which the page is used or the network answers
Instants ==
  {StartOfRun, StartOfRun + 1, StartOfRun + WEATHER_CACHE_TTL,
   StartOfRun + WEATHER_CACHE_TTL + 1}

\* String.prototype.toLowerCase on the names typed into the form
LowerName ==
  [name \in {"", "Berlin", "berlin", "Paris", "DE", "de"} |->
     CASE name \in {"Berlin", "berlin"} -> "berlin"
       [] name = "Paris" -> "paris"
       [] name \in {"DE", "de"} -> "de"
       [] OTHER -> ""]

pickWeatherCacheKey(city, country, time) ==
  [base |-> LowerName[city], nation |-> LowerName[country],
   date |-> time \div MS_PER_DAY]

\* pickFirstNumber([value, undefined, undefined])
pickFirstNumber(value) ==
  IF value.type = "number" /\ "num" \in DOMAIN value THEN Some(value.num)
  ELSE Null

\* the labels pushed are distinct, dedupeByLabel keeps them all
mapWeatherToItems(weather) ==
  LET precipitation == pickFirstNumber(Get(weather, "precipitation"))
      minTemp == pickFirstNumber(Get(weather, "minC"))
      maxTemp == pickFirstNumber(Get(weather, "maxC"))
  IN  (IF precipitation # Null /\ precipitation[1] > 0
         THEN << Descriptor("other", LUmbrella, SrcWeather),
                 Descriptor("clothing", LRaincoat, SrcWeather) >>
         ELSE <<>>)
      \o (IF minTemp # Null /\ minTemp[1] < 5
            THEN << Descriptor("clothing", LGloves, SrcWeather),
                    Descriptor("clothing", LWoolBeanie, SrcWeather) >>
            ELSE <<>>)
      \o (IF maxTemp # Null /\ maxTemp[1] > 24
            THEN << Descriptor("other", LSunscreen, SrcWeather),
                    Descriptor("other", LSunglasses, SrcWeather) >>
            ELSE <<>>)

extractWeatherChecklistItems(weather) == mapWeatherToItems(weather)

\* setWeatherData(null)
clearWeatherData(state) == [state EXCEPT !.weather = Null]

\* { ...cached.data, fromCache: true }
FromCache(data) ==
  JsObject([k \in DOMAIN data.props \cup {"fromCache"} |->
              IF k = "fromCache" THEN JsBoolean(TRUE) ELSE data.props[k]])

(***************************************************************************)
(* What a lookup ends with.                                                *)
(***************************************************************************)
Success(weather) == [name |-> "success", code |-> "", data |-> Some(weather)]

AbortError == [name |-> "AbortError", code |-> "", data |-> Null]

WeatherError(code) == [name |-> "WeatherError", code |-> code, data |-> Null]

\* a rejection of fetch itself that is not an abort
TypeError == [name |-> "TypeError", code |-> "", data |-> Null]

\* the catch block of fetchWeather, rewrapping every error
fetchWeatherCatchRewrapsAbort(err) ==
  IF err.name = "WeatherError" THEN err
  ELSE WeatherError("unknown-error")

\* the catch block of fetchWeather
fetchWeatherCatch(err) ==
  IF err.name = "AbortError" THEN err
  ELSE IF err.name = "WeatherError" THEN err
  ELSE WeatherError("unknown-error")

\* cache.get(cacheKey) with cached.expiresAt > now
CacheHit(store, key, time) ==
  key \in DOMAIN store /\ store[key].expiresAt > time

\* cache.set(cacheKey, { data, expiresAt }) without the time to live
cacheSetForever(store, key, data, startedAt) ==
  (key :> [data |-> data, expiresAt |-> startedAt + MS_PER_DAY]) @@ store

\* cache.set(cacheKey, { data, expiresAt: now + WEATHER_CACHE_TTL }), `now`
\* being the time fetchWeather was called at
cacheSet(store, key, data, startedAt) ==
  (key :> [data |-> data, expiresAt |-> startedAt + WEATHER_CACHE_TTL]) @@ store

(***************************************************************************)
(* requestWeatherUpdate.  The page and the checklist state are passed      *)
(* along as a record [app, ui].                                            *)
(***************************************************************************)
Status(status, data, error, onRetry) ==
  [status |-> status, data |-> data, error |-> error, onRetry |-> onRetry]

\* the async function returns: its promise is fulfilled
Return(world) == [world EXCEPT !.promise = "fulfilled"]

\* the finally block without its assignment
releaseControllerKeeps(page, controller) == page

\* the finally block
releaseController(page, controller) ==
  IF page.pendingWeatherController = controller
    THEN [page EXCEPT !.pendingWeatherController = 0]
    ELSE page

\* the rest of the try block, building the list anew from the trip instead
\* of reconciling the current one
weatherArrivedFromBase(world, controller, weather) ==
  IF world.ui.pendingWeatherController # controller
    THEN Return(world)
    ELSE LET items == extractWeatherChecklistItems(weather)
         IN  [app |-> [setWeatherData(world.app, weather) EXCEPT
                         !.items = dedupeItems(buildBaseItems(world.app.trip)
                                               \o createWeatherItems(items))],
              ui |-> releaseController(
                       [world.ui EXCEPT
                          !.lastWeatherItems = items,
                          !.status = Status("success", Some(weather), Null,
                                            FALSE)],
                       controller),
              promise |-> "fulfilled"]

\* the rest of the try block once fetchWeather has returned, committing the
\* result of a lookup that was superseded as well
weatherArrivedUnguarded(world, controller, weather) ==
  LET items == extractWeatherChecklistItems(weather)
  IN  [app |-> reconcileWeatherItems(setWeatherData(world.app, weather), items),
       ui |-> releaseController(
                [world.ui EXCEPT
                   !.lastWeatherItems = items,
                   !.status = Status("success", Some(weather), Null, FALSE)],
                controller),
       promise |-> "fulfilled"]

\* the rest of the try block once fetchWeather has returned
weatherArrived(world, controller, weather) ==
  IF world.ui.pendingWeatherController # controller
    THEN Return(world)
    ELSE LET items == extractWeatherChecklistItems(weather)
         IN  [app |-> reconcileWeatherItems(setWeatherData(world.app, weather),
                                            items),
              ui |-> releaseController(
                       [world.ui EXCEPT
                          !.lastWeatherItems = items,
                          !.status = Status("success", Some(weather), Null,
                                            FALSE)],
                       controller),
              promise |-> "fulfilled"]

\* the catch block, dropping the weather of the lookup before as the branch
\* for an empty city does
weatherFailedClears(world, controller, silent, err) ==
  IF err.name = "AbortError" \/ world.ui.pendingWeatherController # controller
    THEN Return([world EXCEPT !.ui = releaseController(@, controller)])
    ELSE Return([world EXCEPT
                   !.app = clearWeatherData(reconcileWeatherItems(@, <<>>)),
                   !.ui = releaseController(
                            [@ EXCEPT
                               !.status = Status("error", Null, Some(err.code),
                                                 TRUE),
                               !.lastWeatherItems = <<>>,
                               !.toasts = IF silent THEN @ ELSE @ + 1],
                            controller)])

\* the catch block: err.name === 'AbortError' returns at once
weatherFailed(world, controller, silent, err) ==
  IF err.name = "AbortError"
    THEN Return([world EXCEPT !.ui = releaseController(@, controller)])
    ELSE LET error == IF err.name = "WeatherError" THEN err
                      ELSE WeatherError("unknown")
         IN  IF world.ui.pendingWeatherController # controller
               THEN Return(world)
               ELSE Return([world EXCEPT
                              !.ui = releaseController(
                                       [@ EXCEPT
                                          !.status =
                                            Status("error", Null,
                                                   Some(error.code), TRUE),
                                          !.toasts =
                                            IF silent THEN @ ELSE @ + 1],
                                       controller)])

\* what fetchWeather hands to requestWeatherUpdate
weatherSettled(world, controller, silent, outcome) ==
  IF outcome.name = "success"
    THEN weatherArrived(world, controller, outcome.data[1])
    ELSE weatherFailed(world, controller, silent, outcome)

\* requestWeatherUpdate with no city in the form
weatherCleared(world) ==
  [app |-> clearWeatherData(reconcileWeatherItems(world.app, <<>>)),
   ui |-> [world.ui EXCEPT !.status = Status("idle", Null, Null, FALSE),
                           !.lastWeatherItems = <<>>],
   promise |-> "fulfilled"]

\* requestWeatherUpdate up to the call of fetchWeather: the trip is updated,
\* the controller of the lookup before is replaced, the panel shows loading
weatherRequested(world, city, country, controller, time) ==
  [app |-> updateTrip(world.app,
                      [NoPartial EXCEPT !.city = Some(city),
                                        !.country = Some(country)],
                      time),
   ui |-> [world.ui EXCEPT !.pendingWeatherController = controller,
                           !.status = Status("loading", Null, Null, FALSE)],
   promise |-> "pending"]

\* pendingWeatherController.abort()
abortPending(calls, pending) ==
  [i \in 1..Len(calls) |->
     IF i = pending THEN [calls[i] EXCEPT !.aborted = TRUE] ELSE calls[i]]

\* starting a lookup that leaves the lookup before it running
(***************************************************************************)
(* The steps of the weather specification.                                 *)
(***************************************************************************)
FormInputs ==
  { [city |-> "", country |-> ""],
    [city |-> "Berlin", country |-> "DE"],
    [city |-> "berlin", country |-> "de"],
    [city |-> "Paris", country |-> ""] }

\* the checklist state and the page where a call of requestWeatherUpdate
\* runs or goes on, its promise pending
World == [app |-> appState, ui |-> ui, promise |-> "pending"]

Lookup(controller, form, silent, key, world, outcome, requests) ==
  [controller |-> controller, city |-> form.city, country |-> form.country,
   silent |-> silent, key |-> key, startedAt |-> now, aborted |-> FALSE,
   phase |-> IF outcome = Null THEN "geocode" ELSE "done",
   outcome |-> outcome, requests |-> requests, promise |-> world.promise]

WeatherStep(op, arg, result, world, calls, store) ==
  /\ appState' = world.app
  /\ ui' = world.ui
  /\ lookups' = calls
  /\ cache' = store
  /\ last' = [op |-> op, arg |-> arg, result |-> result, before |-> appState]
  /\ UNCHANGED <<now, probe, storage, timer>>

\* an event of the page calls requestWeatherUpdate
Request(form, silent) ==
  IF form.city = ""
    THEN WeatherStep("requestWeatherUpdate",
                     [form |-> form, cache |-> cache], "cleared", weatherCleared(World), lookups, cache)
    ELSE
      /\ Len(lookups) < MaxLookups
      /\ LET controller == Len(lookups) + 1
             key == pickWeatherCacheKey(form.city, form.country, now)
             requested == weatherRequested(World, form.city, form.country,
                                           controller, now)
             calls == abortPending(lookups, ui.pendingWeatherController)
             arg == [form |-> form, cache |-> cache]
         IN  IF CacheHit(cache, key, now)
               THEN LET outcome == Success(FromCache(cache[key].data))
                        settled == weatherSettled(requested, controller, silent,
                                                  outcome)
                    IN  WeatherStep(
                          "requestWeatherUpdate", arg, "cached", settled,
                          Append(calls, Lookup(controller, form, silent, key,
                                               settled, Some(outcome), 0)),
                          cache)
               ELSE WeatherStep(
                      "requestWeatherUpdate", arg, "fetching", requested,
                      Append(calls, Lookup(controller, form, silent, key,
                                           requested, Null, 1)),
                      cache)

\* a change of the form or the Weather button: { silent = false }
RequestWeatherUpdate ==
  \E form \in FormInputs : Request(form, FALSE)

\* the Retry button of the error status: { reason: 'retry', silent: true }
Retry ==
  /\ ui.status.onRetry
  /\ \E form \in FormInputs : Request(form, TRUE)

\* a lookup ends: fetchWeather rejects or returns, requestWeatherUpdate goes
\* on from its await
Settle(i, err, outcome, store) ==
  LET settled == weatherSettled(World, i, lookups[i].silent, outcome)
  IN  WeatherStep("settled",
                  [lookup |-> lookups[i], err |-> err, ui |-> ui,
                   cache |-> cache, started |-> Len(lookups)],
                  outcome, settled,
                  [lookups EXCEPT ![i].phase = "done",
                                  ![i].outcome = Some(outcome),
                                  ![i].promise = settled.promise],
                  store)

\* what fetch can reject with: the abort only when the signal was aborted
FetchErrors(lookup) ==
  {TypeError} \cup (IF lookup.aborted THEN {AbortError} ELSE {})

\* the answer to the geocoding request
GeocodeAnswers ==
  \E i \in 1..Len(lookups) :
    /\ lookups[i].phase = "geocode"
    /\ \/ /\ lookups' = [lookups EXCEPT ![i].phase = "forecast",
                                        ![i].requests = @ + 1]
          /\ last' = [op |-> "geocoded", arg |-> lookups[i], result |-> Null,
                      before |-> appState]
          /\ UNCHANGED <<appState, now, probe, ui, cache, storage, timer>>
       \/ \E err \in {WeatherError("not-found")} \cup FetchErrors(lookups[i]) :
            Settle(i, Some(err), fetchWeatherCatch(err), cache)

\* the answer to the forecast request
ForecastAnswers ==
  \E i \in 1..Len(lookups) :
    /\ lookups[i].phase = "forecast"
    /\ \/ \E n \in 1..Len(WeatherReports) :
            Settle(i, Null, Success(WeatherReports[n]),
                   cacheSet(cache, lookups[i].key, WeatherReports[n],
                            lookups[i].startedAt))
       \/ \E err \in {WeatherError("forecast-error")} \cup FetchErrors(lookups[i]) :
            Settle(i, Some(err), fetchWeatherCatch(err), cache)

\* time passes
Later ==
  /\ \E t \in Instants : t > now /\ now' = t
  /\ last' = [op |-> "later", arg |-> Null, result |-> Null,
              before |-> appState]
  /\ UNCHANGED <<appState, probe, platform>>

InitWeather ==
  /\ appState = initChecklist(StartOfRun)
  /\ now = StartOfRun
  /\ last = NoOp
  /\ probe = NoProbe
  /\ PlatformAtRest

NextWeather ==
  \/ RequestWeatherUpdate
  \/ Retry
  \/ GeocodeAnswers
  \/ ForecastAnswers
  \/ Later

SpecWeather == InitWeather /\ [][NextWeather]_vars
(***************************************************************************)
(* Properties of the weather lookups.                                      *)
(***************************************************************************)
LookupSettled == last.op = "settled"

\* a newer lookup had been started when the lookup of the last step settled
Superseded == last.arg.started > last.arg.lookup.controller

\* C21: once a newer lookup has been started the older one is aborted, and
\* the result of a superseded lookup, success or failure, changes neither
\* the weather snapshot, the item list, lastWeatherItems nor the weather
\* status.
SupersededIsDiscarded ==
  /\ \A i, j \in 1..Len(lookups) :
       i < j => lookups[i].aborted \/ lookups[i].phase = "done"
  /\ LookupSettled /\ Superseded =>
       /\ appState.weather = last.before.weather
       /\ Items = Before
       /\ ui.lastWeatherItems = last.arg.ui.lastWeatherItems
       /\ ui.status = last.arg.ui.status

\* the forecast of an aborted lookup arrives while its successor is loading
SupersededIsDiscardedWitness ==
  /\ LookupSettled /\ Superseded
  /\ last.arg.lookup.aborted
  /\ last.result.name = "success"
  /\ ui.status.status = "loading"

HasWeatherItem(items) ==
  \E i \in 1..Len(items) : items[i].source = SrcWeather

\* C22: a lookup that fails with a WeatherError leaves the item list and the
\* weather snapshot as they were, at its start and at its failure, and the
\* failure of the lookup the page waits for is shown as an error status with
\* a retry callback.
FailureKeepsChecklist ==
  /\ last.op = "requestWeatherUpdate" /\ last.result = "fetching" =>
       Items = Before /\ appState.weather = last.before.weather
  /\ LookupSettled /\ last.result.name = "WeatherError" =>
       /\ Items = Before
       /\ appState.weather = last.before.weather
       /\ ~Superseded =>
            /\ ui.status.status = "error"
            /\ ui.status.error = Some(last.result.code)
            /\ ui.status.onRetry

\* a lookup fails after an earlier one had put weather items on the list
FailureKeepsChecklistWitness ==
  /\ LookupSettled /\ last.result.name = "WeatherError"
  /\ ~Superseded
  /\ appState.weather # Null
  /\ HasWeatherItem(Items)
  /\ ui.status.status = "error"

\* C23: a lookup whose request was aborted rejects with the AbortError
\* itself, never with a WeatherError, and requestWeatherUpdate returns
\* without an error status, without a toast and without a change of the
\* checklist state, its promise fulfilled.
AbortIsSilent ==
  LookupSettled /\ last.arg.err = Some(AbortError) =>
    /\ last.result = AbortError
    /\ ui.status = last.arg.ui.status
    /\ ui.toasts = last.arg.ui.toasts
    /\ ui.lastWeatherItems = last.arg.ui.lastWeatherItems
    /\ appState = last.before
    /\ lookups[last.arg.lookup.controller].promise = "fulfilled"

\* the geocoding request of a loud lookup is aborted by its successor
AbortIsSilentWitness ==
  /\ LookupSettled /\ last.arg.err = Some(AbortError)
  /\ ~last.arg.lookup.silent
  /\ last.arg.lookup.phase = "geocode"
  /\ ui.status.status = "loading"

\* the properties of a cached snapshot are those of the weather returned
SameSnapshot(returned, cached) ==
  \A k \in DOMAIN cached.props : Get(returned, k) = cached.props[k]

\* C26: a fetchWeather for a key (city, country, day) whose cache entry has
\* not expired returns the cached snapshot without a request to the network,
\* and otherwise asks the network; a lookup that fails or is aborted leaves
\* the cache as it was; every entry was written by a successful lookup of
\* the network for its key and expires 10 minutes after that lookup began.
CacheServesUntilExpiry ==
  /\ last.op = "requestWeatherUpdate" /\ last.arg.form.city # "" =>
       LET call == lookups[Len(lookups)]
           before == last.arg.cache
       IN  IF call.key \in DOMAIN before /\ now < before[call.key].expiresAt
             THEN /\ call.requests = 0
                  /\ call.outcome # Null
                  /\ call.outcome[1].name = "success"
                  /\ SameSnapshot(call.outcome[1].data[1], before[call.key].data)
                  /\ cache = before
             ELSE call.requests > 0 /\ call.outcome = Null
  /\ LookupSettled /\ last.result.name # "success" => cache = last.arg.cache
  /\ \A key \in DOMAIN cache :
       \E i \in 1..Len(lookups) :
         /\ lookups[i].key = key
         /\ lookups[i].requests = 2
         /\ lookups[i].outcome = Some(Success(cache[key].data))
         /\ cache[key].expiresAt = lookups[i].startedAt + WEATHER_CACHE_TTL

\* the forecast fetched for Berlin is served again a millisecond later, to a
\* form that spells the city in lower case
CacheServesUntilExpiryWitness ==
  /\ last.op = "requestWeatherUpdate" /\ last.result = "cached"
  /\ now > lookups[1].startedAt
  /\ lookups[1].city # lookups[2].city
  /\ lookups[2].requests = 0
  /\ ui.status.status = "success"

\* an entry that has expired is fetched again on the same day
CacheExpires ==
  /\ last.op = "requestWeatherUpdate" /\ last.result = "fetching"
  /\ Len(lookups) = 2
  /\ lookups[2].key = lookups[1].key
  /\ lookups[2].key \in DOMAIN cache
  /\ now = cache[lookups[2].key].expiresAt
(***************************************************************************)
(* Persistence and bootstrap: applyState with saveAppState, loadAppState,  *)
(* normalizeState, initChecklist with a provided or a persisted state.     *)
(* The text in localStorage is known by the value JSON.parse makes of it:  *)
(* a state whose parts may be missing and whose items are read by          *)
(* createItem as descriptors.                                              *)
(***************************************************************************)
\* the operations of one session
MaxSessionOps == 3

\* JSON.parse(JSON.stringify(item)) as createItem destructures it: the id is
\* kept, a null quantity falls back to the absent qty
StoredItem(item) ==
  [group |-> item.group, label |-> item.label, source |-> item.source,
   checked |-> item.checked, id |-> Some(item.id), bag |-> item.bag,
   qty |-> Null,
   quantity |-> IF item.quantity = 0 THEN Null ELSE Num(2 * item.quantity)]

StoredTrip(trip) ==
  [city |-> trip.city, country |-> trip.country,
   durationDays |-> Some(trip.durationDays),
   activities |-> Some(trip.activities),
   generatedAt |-> Some(trip.generatedAt)]

\* JSON.parse(JSON.stringify(state))
StoredState(state) ==
  [trip |-> Some(StoredTrip(state.trip)),
   items |-> Some([i \in 1..Len(state.items) |-> StoredItem(state.items[i])]),
   weather |-> state.weather,
   meta |-> state.meta]

\* saveAppState without its try block: the error of setItem leaves it
saveAppStateThrows(stored, state, writeFails) ==
  [storage |-> IF writeFails THEN stored ELSE Some(StoredState(state)),
   threw |-> writeFails]

\* saveAppState(state); localStorage.setItem throws when the quota is
\* exceeded or storage is denied, and the error is caught
saveAppState(stored, state, writeFails) ==
  [storage |-> IF writeFails THEN stored ELSE Some(StoredState(state)),
   threw |-> FALSE]

\* loadAppState(): null when nothing is stored
loadAppState(stored) == stored

\* applyState(nextState, { persist }): the snapshot is replaced, then saved
applyState(nextState, persist, stored, writeFails) ==
  LET saved == IF persist THEN saveAppState(stored, nextState, writeFails)
               ELSE [storage |-> stored, threw |-> FALSE]
  IN  [state |-> nextState, storage |-> saved.storage, threw |-> saved.threw]

\* migrateItemsAddBag(items, defaultBag): items without a bag get the default
migrateItemsAddBag(items, defaultBag) ==
  [i \in 1..Len(items) |->
     IF normalizeBagValue(items[i].bag) = NoBag
       THEN [items[i] EXCEPT !.bag = defaultBag]
       ELSE items[i]]

normalizeState(state, time) ==
  IF state = Null THEN createDefaultState(time)
  ELSE LET next == createDefaultState(time)
           given == state[1]
       IN  [trip |->
              IF given.trip = Null THEN next.trip
              ELSE LET trip == given.trip[1]
                   IN  [city |-> trip.city,
                        country |-> trip.country,
                        durationDays |-> IF trip.durationDays # Null
                                           THEN trip.durationDays[1] ELSE 3,
                        activities |-> IF trip.activities # Null
                                         THEN trip.activities[1] ELSE <<>>,
                        generatedAt |-> IF trip.generatedAt # Null
                                          THEN trip.generatedAt[1] ELSE time],
            items |->
              IF given.items = Null THEN next.items
              ELSE dedupeItems(
                     migrateItemsAddBag(createItems(given.items[1]), "carryOn")),
            weather |-> given.weather,
            meta |-> [lastTemplate |-> given.meta.lastTemplate]]

\* initChecklist that takes the stored items as they are and adds nothing
initChecklistNeverSynthesizes(initialState, stored, time) ==
  normalizeState(IF initialState # Null THEN initialState
                 ELSE loadAppState(stored), time)

\* initChecklist(initialState): the state that applyState is called with
initChecklistFrom(initialState, stored, time) ==
  LET normalized == normalizeState(IF initialState # Null THEN initialState
                                   ELSE loadAppState(stored), time)
  IN  IF Len(normalized.items) = 0
        THEN [normalized EXCEPT !.items = buildBaseItems(normalized.trip)]
        ELSE normalized

(***************************************************************************)
(* A session: the page loads with whatever an earlier session left in      *)
(* localStorage, initChecklist runs, and up to MaxSessionOps operations    *)
(* follow, each write to localStorage failing or not.                      *)
(***************************************************************************)
NoState == [trip |-> Null, items |-> Null, weather |-> Null,
            meta |-> [lastTemplate |-> Null]]

\* states found in localStorage or in a share link: nothing but a trip, a
\* list whose only label is blank, an empty list, a list that spells one
\* item twice
GivenStates ==
  { [NoState EXCEPT
       !.trip = Some([city |-> "Berlin", country |-> "DE",
                      durationDays |-> Some(5),
                      activities |-> Some(<<"pitching">>),
                      generatedAt |-> Null])],
    [NoState EXCEPT
       !.trip = Some([city |-> "", country |-> "", durationDays |-> Null,
                      activities |-> Null, generatedAt |-> Some(0)]),
       !.items = Some(<< Descriptor("tech", LBlank, SrcCustom) >>)],
    [NoState EXCEPT !.items = Some(<<>>)],
    [NoState EXCEPT
       !.items = Some(<< [Descriptor("tech", LHdmiCable, SrcCustom) EXCEPT
                            !.quantity = Num(4), !.bag = "work"],
                         [Descriptor("tech", LHdmiCableLoose, SrcCustom) EXCEPT
                            !.checked = TRUE, !.bag = "work"],
                         Descriptor(NoGroup, LShirtPadded, NoSource) >>)] }

SessionTrips ==
  { [NoPartial EXCEPT !.durationDays = Some(5),
                      !.activities = Some(<<"pitching">>)],
    [NoPartial EXCEPT !.durationDays = Some(4),
                      !.activities = Some(<<"workshop", "networking">>)],
    [NoPartial EXCEPT !.durationDays = Some(1)],
    [NoPartial EXCEPT !.city = Some("Berlin"), !.country = Some("DE")] }

Started == last.op # "init"

SessionStep(op, arg, nextState, persist) ==
  \E writeFails \in (IF persist THEN BOOLEAN ELSE {FALSE}) :
    LET applied == applyState(nextState, persist, storage, writeFails)
    IN  /\ now < MaxSessionOps
        /\ now' = now + 1
        /\ appState' = applied.state
        /\ storage' = applied.storage
        /\ last' = [op |-> op, arg |-> arg,
                    result |-> [persist |-> persist, writeFails |-> writeFails,
                                threw |-> applied.threw, next |-> nextState,
                                stored |-> storage],
                    before |-> appState]
        /\ UNCHANGED <<probe, ui, lookups, cache, timer>>

\* init() and hydrateFromURL: initChecklist() or initChecklist(sharedState)
InitChecklist ==
  \E initialState \in {Null} \cup {Some(s) : s \in GivenStates} :
    SessionStep("initChecklist", initialState,
                initChecklistFrom(initialState, storage, now + 1), FALSE)

SessionToggle ==
  /\ Started
  /\ \E i \in 1..2, checked \in BOOLEAN :
       /\ i <= Len(appState.items)
       /\ SessionStep("toggleItem", [id |-> appState.items[i].id,
                                     checked |-> checked],
                      toggleItem(appState, appState.items[i].id, checked), TRUE)

SessionUpdateTrip ==
  /\ Started
  /\ \E partial \in SessionTrips :
       SessionStep("updateTrip", partial,
                   updateTrip(appState, partial, now + 1), FALSE)

SessionGenerate ==
  /\ Started
  /\ SessionStep("generateChecklist", Null,
                 generateChecklist(appState, Null), TRUE)

SessionSetWeather ==
  /\ Started
  /\ SessionStep("setWeatherData", WeatherReports[1],
                 setWeatherData(appState, WeatherReports[1]), FALSE)

\* the module as loaded: let appState = createDefaultState()
InitSession ==
  /\ appState = createDefaultState(0)
  /\ now = 0
  /\ last = NoOp
  /\ probe = NoProbe
  /\ ui = PageLoaded
  /\ lookups = <<>>
  /\ cache = <<>>
  /\ storage \in {Null} \cup {Some(s) : s \in GivenStates}
  /\ timer = Null

NextSession ==
  \/ InitChecklist
  \/ SessionToggle
  \/ SessionUpdateTrip
  \/ SessionGenerate
  \/ SessionSetWeather

SpecSession == InitSession /\ [][NextSession]_vars
(***************************************************************************)
(* Properties of a session.                                                *)
(***************************************************************************)
\* C24: a write to localStorage that fails does not leave the operation:
\* the snapshot holds the state the operation made, the stored text stays as
\* it was, and nothing is written later on its behalf; a write that succeeds
\* stores the snapshot of that moment, and an operation that does not
\* persist leaves the stored text alone.
FailedWriteIsHarmless ==
  Started =>
    /\ ~last.result.threw
    /\ appState = last.result.next
    /\ IF last.result.persist /\ ~last.result.writeFails
         THEN storage = Some(StoredState(appState))
         ELSE storage = last.result.stored

\* an item was checked while the write failed, over a list that an earlier
\* operation had stored
FailedWriteIsHarmlessWitness ==
  /\ Started
  /\ last.op = "toggleItem"
  /\ last.result.writeFails
  /\ last.arg.checked
  /\ Items # Before
  /\ storage # Null /\ storage # Some(StoredState(appState))
  /\ storage = Some(StoredState(last.before))

\* the group and label of every entry of the static template
StaticLabels ==
  UNION {{<<CHECKLIST_TEMPLATE[g][1], CHECKLIST_TEMPLATE[g][2][i]>> :
            i \in 1..Len(CHECKLIST_TEMPLATE[g][2])} :
           g \in 1..Len(CHECKLIST_TEMPLATE)}

\* what a trip of `days` days asks for: a pair of socks a day, a shirt for
\* every two days, a spare jacket above 4 days and a light sweater below, an
\* extension cord above 3 days
DurationLabels(days) ==
  {<<"clothing", NumberToString(days) \o LxSocks>>,
   <<"clothing", NumberToString((days + 1) \div 2) \o LxCasualShirts>>,
   <<"clothing", IF days > 4 THEN LSpareJacket ELSE LLightSweater>>}
  \cup (IF days > 3 THEN {<<"tech", LExtensionCord>>} ELSE {})

ActivityLabels(activities) ==
  UNION {{<<ACTIVITY_ADD_ONS(activities[a])[i].group,
            ACTIVITY_ADD_ONS(activities[a])[i].label>> :
            i \in 1..Len(ACTIVITY_ADD_ONS(activities[a]))} :
           a \in 1..Len(activities)}

TripLabels(trip) ==
  StaticLabels \cup DurationLabels(trip.durationDays)
  \cup ActivityLabels(trip.activities)

OnList(items, entry) ==
  \E i \in 1..Len(items) :
    items[i].label = entry[2] /\ items[i].group = entry[1]

\* an item stands for a label when it has the conflict key of that label in
\* the carry-on, the bag of everything generated
StandsFor(item, entry) ==
  getConflictKeyFromItem(item) = getConflictKey(entry[2], "carryOn")

\* C27: after generateChecklist the list holds an item for every label of
\* the static template, for every label the duration rules give for
\* trip.durationDays and for every add-on of every activity of the trip; the
\* item is in the group of the rule unless it was on the list before.
GenerateCoversTrip ==
  last.op = "generateChecklist" =>
    \A entry \in TripLabels(appState.trip) :
      \E i \in 1..Len(Items) :
        /\ StandsFor(Items[i], entry)
        /\ \/ Items[i].group = entry[1] /\ Items[i].label = entry[2]
           \/ \E j \in 1..Len(Before) : StandsFor(Before[j], entry)

\* updateTrip to 5 days with 'pitching', then generateChecklist: 'Formal
\* Outfit' in group clothing is new on the list
GenerateCoversTripWitness ==
  /\ last.op = "generateChecklist"
  /\ appState.trip.durationDays = 5
  /\ appState.trip.activities = <<"pitching">>
  /\ \E i \in 1..Len(Items) :
       Items[i].label = LFormalOutfit /\ Items[i].group = "clothing"
  /\ \A j \in 1..Len(Before) : Before[j].label # LFormalOutfit
  /\ \E i \in 1..Len(Items) : Items[i].label = NumberToString(5) \o LxSocks

\* the key createItem gives a descriptor: a missing or unknown bag is the
\* carry-on
DescriptorKey(d) ==
  getConflictKey(d.label, IF d.bag \in BagSet THEN d.bag ELSE "carryOn")

\* C28: initChecklist uses the items of the provided state, or else of the
\* persisted state, when that list still has an item once blank labels are
\* dropped and duplicates merged: one item for each key given, and no other;
\* otherwise the list is the base list of the trip, one item for every label
\* of the static template, the duration rules and the activities.  In both
\* cases the list is not empty.
BootstrapUsesGivenItems ==
  last.op = "initChecklist" =>
    LET given == IF last.arg # Null THEN last.arg ELSE last.result.stored
        listed == IF given = Null \/ given[1].items = Null
                    THEN <<>> ELSE given[1].items[1]
        Labelled(d) == Trim(d.label) # <<>>
        usable == SelectSeq(listed, Labelled)
    IN  /\ Items # <<>>
        /\ IF usable # <<>>
             THEN /\ \A i \in 1..Len(Items) : \E j \in 1..Len(usable) :
                       getConflictKeyFromItem(Items[i]) = DescriptorKey(usable[j])
                  /\ \A j \in 1..Len(usable) : \E i \in 1..Len(Items) :
                       getConflictKeyFromItem(Items[i]) = DescriptorKey(usable[j])
                  /\ \A i, k \in 1..Len(Items) :
                       i # k => getConflictKeyFromItem(Items[i])
                                  # getConflictKeyFromItem(Items[k])
             ELSE /\ \A entry \in TripLabels(appState.trip) :
                       OnList(Items, entry)
                  /\ Len(Items) = Cardinality(TripLabels(appState.trip))

\* the page loads over a stored list that spells one item twice: the two
\* are one item, and nothing of the base list is added
BootstrapUsesGivenItemsWitness ==
  /\ last.op = "initChecklist"
  /\ last.arg = Null
  /\ last.result.stored # Null
  /\ last.result.stored[1].items # Null
  /\ Len(last.result.stored[1].items[1]) = 3
  /\ Len(Items) = 2
  /\ Items[1].quantity = 2 /\ Items[1].checked

\* a share link without items over a stored list: the base list of the trip
\* of the link
BootstrapSynthesizes ==
  /\ last.op = "initChecklist"
  /\ last.arg # Null /\ last.arg[1].items = Null
  /\ last.result.stored # Null
  /\ appState.trip.durationDays = 5
  /\ OnList(Items, <<"clothing", LFormalOutfit>>)

\* C29: updateTrip merges the fields supplied over the current trip, the
\* activities only when an array is supplied, and refreshes generatedAt;
\* items, weather and meta.lastTemplate stay as they are, so the list of
\* the new trip is not built yet.
UpdateTripChangesOnlyTrip ==
  last.op = "updateTrip" =>
    LET partial == last.arg
        old == last.before.trip
        new == appState.trip
    IN  /\ Items = Before
        /\ appState.weather = last.before.weather
        /\ appState.meta = last.before.meta
        /\ new.city = IF partial.city # Null THEN partial.city[1] ELSE old.city
        /\ new.country = IF partial.country # Null THEN partial.country[1]
                         ELSE old.country
        /\ new.durationDays = IF partial.durationDays # Null
                                THEN partial.durationDays[1]
                                ELSE old.durationDays
        /\ new.activities = IF partial.activities # Null
                              THEN partial.activities[1] ELSE old.activities
        /\ new.generatedAt = now

\* the trip becomes 5 days with 'pitching' while the weather is set: the
\* list does not yet hold what the new trip asks for
UpdateTripChangesOnlyTripWitness ==
  /\ last.op = "updateTrip"
  /\ appState.trip.durationDays = 5
  /\ last.before.trip.durationDays # 5
  /\ appState.trip.activities = <<"pitching">>
  /\ appState.weather # Null
  /\ ~OnList(Items, <<"clothing", LFormalOutfit>>)
  /\ appState.trip.generatedAt > last.before.trip.generatedAt
(***************************************************************************)
(* createItem on its own: one descriptor, drawn from labels that are       *)
(* empty, blank, padded or plain, bags that are missing, known or unknown, *)
(* and quantities around every border of the rule.                         *)
(***************************************************************************)
MaxQuantityHalves == 400

CreateLabels == {<<>>, LBlank, LShirtPadded, LHdmiCable}

CreateBags == BagSet \cup {NoBag, "trunk"}

CreateQuantities ==
  {Null, NotFinite}
  \cup {Num(h) : h \in {-3, 0, 1, 2, 5, 197, 198, 199, MaxQuantityHalves}}

CreateInputs ==
  {[Descriptor("tech", label, SrcCustom) EXCEPT
      !.bag = bag, !.quantity = quantity, !.qty = qty] :
     label \in CreateLabels, bag \in CreateBags,
     quantity \in CreateQuantities, qty \in {Null, Num(6)}}

InitCreate ==
  /\ appState = initChecklist(0)
  /\ now = 0
  /\ last = NoOp
  /\ \E d \in CreateInputs :
       probe = [fn |-> "createItem", in |-> d, out |-> Null]
  /\ PlatformAtRest

CreateCall ==
  /\ probe.fn = "createItem"
  /\ probe.out = Null
  /\ probe' = [probe EXCEPT !.out = Some(createItem(probe.in))]
  /\ UNCHANGED <<appState, now, last, platform>>

NextCreate == CreateCall

SpecCreate == InitCreate /\ [][NextCreate]_vars

CreateDone == probe.fn = "createItem" /\ probe.out # Null

\* the quantity createItem reads: quantity ?? qty
QuantityGiven(d) == IF d.quantity # Null THEN d.quantity ELSE d.qty

\* C30: createItem returns null for a label that is empty or blank;
\* otherwise the bag of the item is the bag given when that is one of
\* carryOn, checked, personal, work and carryOn when it is missing or
\* unknown; a finite quantity above 0 becomes the least integer not below
\* it, 99 at most, and any other quantity is unset, not zero.
CreateItemNormalizes ==
  CreateDone =>
    LET d == probe.in
        made == probe.out[1]
        q == QuantityGiven(d)
    IN  IF \A i \in 1..Len(d.label) : d.label[i] = " "
          THEN made = Null
          ELSE /\ made # Null
               /\ made[1].bag \in BagSet
               /\ made[1].bag = IF d.bag \in BagSet THEN d.bag ELSE "carryOn"
               /\ IF q # Null /\ q[1].fin /\ q[1].halves > 0
                    THEN /\ made[1].quantity \in 1..99
                         /\ \/ made[1].quantity = 99 /\ q[1].halves > 2 * 98
                            \/ /\ 2 * made[1].quantity >= q[1].halves
                               /\ 2 * (made[1].quantity - 1) < q[1].halves
                    ELSE made[1].quantity = 0

\* 99.5 items for a bag that is not known: 99 in the carry-on
CreateItemNormalizesWitness ==
  /\ CreateDone
  /\ probe.in.quantity = Num(199)
  /\ probe.in.bag = "trunk"
  /\ probe.out[1] # Null
  /\ probe.out[1][1].quantity = 99
  /\ probe.out[1][1].bag = "carryOn"
  /\ probe.out[1][1].label = <<"s", "h", "i", "r", "t">>
(***************************************************************************)
(* debounce(fn, delay).  The closure keeps the id of its last timeout; the *)
(* page keeps the timeouts that are set and runs the callback of a timeout *)
(* at the instant it is due, before or after an event of the same instant. *)
(* debounced.cancel is called nowhere in the page.                         *)
(***************************************************************************)
DEBOUNCE_DELAY == 500

\* the calls of the debounced function in one run
MaxDebounceCalls == 3

\* the run ends when every call has had the time to be answered
DebounceHorizon == (MaxDebounceCalls + 1) * DEBOUNCE_DELAY

\* the time between two events: less than the delay, or the delay
DebounceGaps == {DEBOUNCE_DELAY - 1, DEBOUNCE_DELAY}

NoTimeouts == [id |-> 0, issued |-> 0, pending |-> {}]

\* window.clearTimeout(id)
clearTimeout(pending, id) == {t \in pending : t.id # id}

\* debounced(...args) without clearTimeout
debouncedKeepsTimeout(timeouts, args, time, delay) ==
  LET id == timeouts.issued + 1
  IN  [id |-> id, issued |-> id,
       pending |-> timeouts.pending
                   \cup {[id |-> id, due |-> time + delay, args |-> args]}]

\* debounced(...args): clearTimeout(timer); timer = setTimeout(..., delay)
debounced(timeouts, args, time, delay) ==
  LET id == timeouts.issued + 1
  IN  [id |-> id, issued |-> id,
       pending |-> clearTimeout(timeouts.pending, timeouts.id)
                   \cup {[id |-> id, due |-> time + delay, args |-> args]}]

\* what the run has seen of the debounced function and of fn
NoCalls ==
  [fn |-> "debounce", calls |-> 0, lastCallAt |-> 0, lastArgs |-> "",
   invocations |-> 0, sinceCall |-> 0, invokedWith |-> ""]

InitDebounce ==
  /\ appState = initChecklist(0)
  /\ now = 0
  /\ last = NoOp
  /\ probe = NoCalls
  /\ ui = PageLoaded
  /\ lookups = <<>>
  /\ cache = <<>>
  /\ storage = Null
  /\ timer = NoTimeouts

\* an input event calls the debounced function
DebouncedCall ==
  \E args \in {"city", "country"} :
    /\ probe.calls < MaxDebounceCalls
    /\ now + DEBOUNCE_DELAY <= DebounceHorizon
    /\ timer' = debounced(timer, args, now, DEBOUNCE_DELAY)
    /\ probe' = [probe EXCEPT !.calls = @ + 1, !.lastCallAt = now,
                              !.lastArgs = args, !.sinceCall = 0]
    /\ last' = [op |-> "debounced", arg |-> args,
                result |-> [first |-> probe.calls = 0,
                            gap |-> now - probe.lastCallAt,
                            invokedBetween |-> probe.sinceCall],
                before |-> appState]
    /\ UNCHANGED <<appState, now, ui, lookups, cache, storage>>

\* a timeout is due: () => fn.apply(this, args)
TimeoutFires ==
  \E t \in timer.pending :
    /\ t.due <= now
    /\ timer' = [timer EXCEPT !.pending = @ \ {t}]
    /\ probe' = [probe EXCEPT !.invocations = @ + 1, !.sinceCall = @ + 1,
                              !.invokedWith = t.args]
    /\ last' = [op |-> "fn", arg |-> t.args, result |-> Null,
                before |-> appState]
    /\ UNCHANGED <<appState, now, ui, lookups, cache, storage>>

\* time passes, up to the next timeout that is due
TimePasses ==
  \E gap \in DebounceGaps :
    LET dues == {t.due : t \in timer.pending}
        next == IF \E due \in dues : due < now + gap
                  THEN CHOOSE due \in dues : \A other \in dues : due <= other
                  ELSE now + gap
    IN  /\ \A due \in dues : due > now
        /\ next <= DebounceHorizon
        /\ now' = next
        /\ last' = [op |-> "later", arg |-> Null, result |-> Null,
                    before |-> appState]
        /\ UNCHANGED <<appState, probe, ui, lookups, cache, storage, timer>>

NextDebounce ==
  \/ DebouncedCall
  \/ TimeoutFires
  \/ TimePasses

SpecDebounce == InitDebounce /\ [][NextDebounce]_vars

\* the page runs the callback of a timeout that is due, and time goes on
SpecDebounceFair ==
  SpecDebounce /\ WF_vars(TimeoutFires) /\ WF_vars(TimePasses)

\* fn runs no sooner than the delay after the latest call, with the
\* arguments of that call, once for that call; and between two calls less
\* than the delay apart it has not run
DebounceHolds ==
  /\ last.op = "fn" =>
       /\ now = probe.lastCallAt + DEBOUNCE_DELAY
       /\ probe.sinceCall = 1
       /\ probe.invokedWith = probe.lastArgs
  /\ last.op = "debounced" /\ ~last.result.first
                           /\ last.result.gap < DEBOUNCE_DELAY =>
       last.result.invokedBetween = 0
  /\ probe.invocations <= probe.calls

\* C25: fn is invoked only once the full delay has passed since the most
\* recent call, never between calls that are less than the delay apart, and
\* every call is followed by a newer call or by the one invocation that
\* answers it.
DebounceWaitsForQuiet ==
  /\ []DebounceHolds
  /\ \A n \in 1..MaxDebounceCalls :
       (probe.calls = n /\ probe.sinceCall = 0)
         ~> (probe.calls > n \/ probe.sinceCall = 1)

\* a burst of three calls, each less than the delay after the one before,
\* and the one invocation, the delay after the third
DebounceWaitsForQuietWitness ==
  /\ last.op = "fn"
  /\ probe.calls = MaxDebounceCalls
  /\ probe.invocations = 1
  /\ probe.lastCallAt = 2 * (DEBOUNCE_DELAY - 1)
  /\ now = probe.lastCallAt + DEBOUNCE_DELAY
(***************************************************************************)
(* What a reload would restore: initChecklist() on the stored text.         *)
(***************************************************************************)
Reloaded(stored, time) == initChecklistFrom(Null, stored, time)

\* trip, items and weather of two snapshots are the same
SameTripItemsWeather(a, b) ==
  /\ a.trip = b.trip
  /\ a.items = b.items
  /\ a.weather = b.weather

\* C31: after every operation that replaces the snapshot, initChecklist,
\* updateTrip and setWeatherData included, whose write (if any) did not fail
\* and which started with the stored snapshot equal to the one in memory
\* (or is the first of the session), a reload restores the trip, the items
\* and the weather of the snapshot in memory.
PersistedAfterEveryChange ==
  (/\ Started
   /\ ~last.result.writeFails
   /\ \/ last.op = "initChecklist"
      \/ SameTripItemsWeather(Reloaded(last.result.stored, now - 1), last.before))
    => SameTripItemsWeather(Reloaded(storage, now), appState)

\* what holds: an operation that persists, and whose write succeeds, leaves
\* a stored snapshot that restores the one in memory
PersistingWriteRestores ==
  (Started /\ last.result.persist /\ ~last.result.writeFails)
    => SameTripItemsWeather(Reloaded(storage, now), appState)

(***************************************************************************)
(* Operations addressed by id                                              *)
(***************************************************************************)
\* the places of the list before the operation that hold the id
Addressed(id) == {i \in 1..Len(Before) : Before[i].id = id}

WithoutPlace(items, at) ==
  [i \in 1..(Len(items) - 1) |-> IF i < at THEN items[i] ELSE items[i + 1]]

OnlyItemsChanged == appState = [last.before EXCEPT !.items = Items]

\* C32: toggleItem sets the checked flag of one item, the one with the id,
\* deleteItem removes that one item and keeps the others in order,
\* moveItemToBag without a conflict changes the bag of that one item, and
\* each leaves the list as it was when no item has the id.
SingleItemOpsTouchOneItem ==
  /\ last.op = "toggleItem" =>
       /\ OnlyItemsChanged
       /\ IF Addressed(last.arg.id) = {} THEN Items = Before
          ELSE \E at \in Addressed(last.arg.id) :
                 Items = [Before EXCEPT ![at].checked = last.arg.checked]
  /\ last.op = "deleteItem" =>
       /\ OnlyItemsChanged
       /\ IF Addressed(last.arg) = {} THEN Items = Before
          ELSE \E at \in Addressed(last.arg) : Items = WithoutPlace(Before, at)
  /\ last.op = "moveItemToBag" =>
       /\ OnlyItemsChanged
       /\ Addressed(last.arg.id) = {} => Items = Before /\ last.result = "missing"
       /\ last.result = "moved" =>
            \E at \in Addressed(last.arg.id) :
              Items = [Before EXCEPT
                         ![at].bag = IF last.arg.bag \in BagSet
                                       THEN last.arg.bag ELSE "carryOn"]

\* what holds: the operations act on every item that has the id
IdOpsTouchEveryItemOfId ==
  /\ last.op = "toggleItem" =>
       Items = [i \in 1..Len(Before) |->
                  IF i \in Addressed(last.arg.id)
                    THEN [Before[i] EXCEPT !.checked = last.arg.checked]
                    ELSE Before[i]]
  /\ last.op = "deleteItem" =>
       /\ Len(Items) = Len(Before) - Cardinality(Addressed(last.arg))
       /\ \A i \in 1..Len(Items) : Items[i].id # last.arg

\* C36: no two items of the list share an id.
ItemIdsUnique ==
  \A i \in 1..Len(Items), j \in 1..Len(Items) :
    Items[i].id = Items[j].id => i = j

\* C33: generateChecklist called again with the same trip and the same
\* weather items leaves the list as the first call made it.
RegenerationIdempotent ==
  last.op = "generateChecklist" =>
    generateChecklist(appState, last.arg).items = Items

\* what holds: a second call changes nothing but quantities
RegenerationKeepsAllButQuantity ==
  last.op = "generateChecklist" =>
    LET again == generateChecklist(appState, last.arg).items
    IN  /\ Len(again) = Len(Items)
        /\ \A i \in 1..Len(Items) :
             [again[i] EXCEPT !.quantity = 0] = [Items[i] EXCEPT !.quantity = 0]
(***************************************************************************)
(* dedupeItems on lists of one label whose occurrences differ in source    *)
(* and bag.                                                                *)
(***************************************************************************)
MaxSourceLen == 3

MergeSources ==
  {SrcBase, SrcWeather, SrcCustom, <<"template">>, <<"template", "biz">>,
   NoSource}

SourceChoices ==
  { [id |-> [prefix |-> IF s = NoSource THEN <<"item">> ELSE s,
             group |-> "tech", slug |-> slugify(LHdmiCable),
             tail |-> LowerBag(b)],
     group |-> "tech", label |-> LHdmiCable, source |-> s, checked |-> FALSE,
     bag |-> b, quantity |-> 0] :
      s \in MergeSources, b \in {"carryOn", "work"} }

InitSources ==
  /\ appState = initChecklist(0)
  /\ now = 0
  /\ last = NoOp
  /\ \E items \in UNION {[1..n -> SourceChoices] : n \in 0..MaxSourceLen} :
       probe = [fn |-> "dedupeItems", in |-> items, out |-> Null]
  /\ PlatformAtRest

SpecSources == InitSources /\ [][NextDedupe]_vars

SourcesOf(items, key) == {items[i].source : i \in Occurrences(items, key)}

LastTemplateSource(items, key) ==
  LET from == {i \in Occurrences(items, key) : IsTemplateSource(items[i].source)}
  IN  items[CHOOSE i \in from : \A j \in from : j <= i].source

\* C34: the source of a merged item is custom when an occurrence is custom;
\* else a template source when an occurrence has one (that of the latest
\* such occurrence); else the source of the first occurrence.
DedupePrefersCustomThenTemplate ==
  DedupeDone =>
    LET in == probe.in
        out == probe.out[1]
    IN  \A a \in 1..Len(out) :
          LET key == getConflictKeyFromItem(out[a])
              sources == SourcesOf(in, key)
          IN  out[a].source =
                IF SrcCustom \in sources THEN SrcCustom
                ELSE IF \E s \in sources : IsTemplateSource(s)
                  THEN LastTemplateSource(in, key)
                ELSE in[FirstOccurrence(in, key)].source

\* a template item first, a custom one second, another template item third:
\* the merged item is custom
DedupePrefersCustomThenTemplateWitness ==
  /\ DedupeDone
  /\ Len(probe.in) = 3
  /\ Len(probe.out[1]) = 1
  /\ probe.in[1].source = <<"template">>
  /\ probe.in[2].source = SrcCustom
  /\ probe.in[3].source = <<"template", "biz">>
  /\ probe.out[1][1].source = SrcCustom

\* a base item first, a template item second, a weather item third: template
DedupeTemplateOverGeneric ==
  /\ DedupeDone
  /\ Len(probe.in) = 3
  /\ Len(probe.out[1]) = 1
  /\ probe.in[1].source = SrcBase
  /\ probe.in[2].source = <<"template", "biz">>
  /\ probe.in[3].source = SrcWeather
  /\ probe.out[1][1].source = <<"template", "biz">>
(***************************************************************************)
(* The add-custom-item flow: the dialog (or window.prompt where dialogs    *)
(* are not supported), addCustomItem, and the toasts they show.            *)
(***************************************************************************)
MaxDialogOps == 3

Toast(message, kind) == [message |-> message, kind |-> kind]

\* the toasts of addCustomItem and of ensureUniqueOrMerge within it
addCustomItemToasts(label, status) ==
  IF Trim(label) = <<>>
    THEN << Toast("Provide a name for the custom item.", "error") >>
  ELSE IF status = "merged"
    THEN << Toast("Quantity increased", "success") >>
  ELSE IF status = "added"
    THEN << Toast("Item added to list.", "success") >>
  ELSE <<>>

\* addCustomItem has run: its toasts, then the toast of the dialog
customItemAdded(out, name) ==
  [state |-> out.state,
   report |-> [called |-> TRUE, status |-> out.result.status,
               toasts |-> addCustomItemToasts(name, out.result.status)
                          \o << Toast("Custom item added.", "success") >>]]

customItemLeft(state) ==
  [state |-> state,
   report |-> [called |-> FALSE, status |-> "none", toasts |-> <<>>]]

\* the close handler of the dialog
customItemDialogClosed(state, returnValue, name, category, confirm, time) ==
  IF returnValue = "confirm"
    THEN customItemAdded(addCustomItem(state, name, category, confirm, time),
                         name)
    ELSE customItemLeft(state)

\* window.prompt('Item name'): the empty text stands for Cancel as well
customItemPrompted(state, name, confirm, time) ==
  IF name # <<>>
    THEN customItemAdded(addCustomItem(state, name, "other", confirm, time),
                         name)
    ELSE customItemLeft(state)

DialogNames == {<<>>, LBlank, LHdmiCable, LShirtPadded}

DialogClosed ==
  \E returnValue \in {"confirm", "cancel"}, name \in DialogNames,
     category \in {"other", "tech"}, confirm \in BOOLEAN :
    LET out == customItemDialogClosed(appState, returnValue, name, category,
                                      confirm, now + 1)
    IN  StepWithin(MaxDialogOps, "customItemDialog",
                   [returnValue |-> returnValue, name |-> name,
                    category |-> category, confirm |-> confirm],
                   out.report, out.state)

PromptAnswered ==
  \E name \in DialogNames, confirm \in BOOLEAN :
    LET out == customItemPrompted(appState, name, confirm, now + 1)
    IN  StepWithin(MaxDialogOps, "customItemPrompt",
                   [returnValue |-> "prompt", name |-> name,
                    category |-> "other", confirm |-> confirm],
                   out.report, out.state)

NextDialog ==
  \/ DialogClosed
  \/ PromptAnswered

SpecDialog == Init /\ [][NextDialog]_vars

DialogDone == last.op \in {"customItemDialog", "customItemPrompt"}

Shown(message) ==
  \E i \in 1..Len(last.result.toasts) :
    /\ last.result.toasts[i].message = message
    /\ last.result.toasts[i].kind = "success"

\* C35: the add-custom-item flow shows a success notification that the item
\* was added only when the add returned 'added'; not for a blank label, a
\* merged duplicate or a declined merge.
AddedReportedOnlyWhenAdded ==
  (DialogDone /\ (Shown("Custom item added.") \/ Shown("Item added to list.")))
    => last.result.status = "added"

\* what holds: addCustomItem itself reports the item as added exactly when
\* ensureUniqueOrMerge returned 'added'
AddCustomItemReportsAdded ==
  DialogDone =>
    (Shown("Item added to list.") <=> last.result.status = "added")
(***************************************************************************)
(* Lookups, the cleared city and the edits of the user.                    *)
(***************************************************************************)
\* the status is 'idle' from the load of the page and from a
\* requestWeatherUpdate with an empty city, until the next lookup starts
CityCleared(page) == page.status.status = "idle"

\* C37: once requestWeatherUpdate has run with an empty city, and until a
\* lookup for a city is started, the weather snapshot is null and the list
\* holds no weather item; the result of a lookup that was in flight when
\* the city was cleared is not applied.
ClearedCityWins ==
  /\ CityCleared(ui) =>
       appState.weather = Null /\ ~HasWeatherItem(Items)
  /\ LookupSettled /\ CityCleared(last.arg.ui) =>
       /\ appState = last.before
       /\ appState.weather = Null
       /\ ~HasWeatherItem(Items)

\* what holds: the call with the empty city itself leaves no weather behind
ClearedCityClears ==
  CityCleared(ui) =>
    /\ appState.weather = Null
    /\ ~HasWeatherItem(Items)
    /\ ui.lastWeatherItems = <<>>

(***************************************************************************)
(* One lookup and the edits of the user, before it starts, while it is in  *)
(* flight and after it has settled.                                        *)
(***************************************************************************)
MaxEdits == 4

NoEdits == [fn |-> "edits", count |-> 0]

\* an edit of the user once the lookup has been started
EditStep(op, arg, result, nextState) ==
  /\ lookups # <<>>
  /\ probe.count < MaxEdits
  /\ probe' = [probe EXCEPT !.count = @ + 1]
  /\ appState' = nextState
  /\ last' = [op |-> op, arg |-> arg, result |-> result, before |-> appState]
  /\ UNCHANGED <<now, platform>>

\* the ids of the items the user acts on, weather items left out
EditIds ==
  {id \in TargetIds :
     \A i \in 1..Len(appState.items) :
       appState.items[i].id = id => appState.items[i].source # SrcWeather}

EditEnsure ==
  \E confirm \in BOOLEAN :
    LET out == ensureUniqueOrMerge(appState, FocusDescriptor, confirm)
    IN  EditStep("ensureUniqueOrMerge",
                 [newItem |-> FocusDescriptor, confirm |-> confirm],
                 out.result, out.state)

EditToggle ==
  \E id \in EditIds :
    EditStep("toggleItem", [id |-> id, checked |-> TRUE], Null,
             toggleItem(appState, id, TRUE))

EditDelete ==
  \E id \in EditIds :
    EditStep("deleteItem", id, Null, deleteItem(appState, id))

EditMove ==
  \E id \in EditIds :
    LET out == moveItemToBag(appState, id, "work")
    IN  EditStep("moveItemToBag", [id |-> id, bag |-> "work"],
                 out.result, out.state)

EditApply ==
  \E mode \in {"merge", "replace"} :
    LET out == applyTemplate(appState, BUILT_IN_TEMPLATES[1], mode, 0)
    IN  EditStep("applyTemplate",
                 [template |-> BUILT_IN_TEMPLATES[1], mode |-> mode],
                 out.result, out.state)

\* the one lookup of the run
EditLookup ==
  /\ lookups = <<>>
  /\ Request([city |-> "Berlin", country |-> "DE"], FALSE)

InitEdits ==
  /\ appState = initChecklist(StartOfRun)
  /\ now = StartOfRun
  /\ last = NoOp
  /\ probe = NoEdits
  /\ PlatformAtRest

NextEdits ==
  \/ EditLookup
  \/ GeocodeAnswers
  \/ ForecastAnswers
  \/ EditEnsure
  \/ EditToggle
  \/ EditDelete
  \/ EditMove
  \/ EditApply

SpecEdits == InitEdits /\ [][NextEdits]_vars

NotWeather(item) == item.source # SrcWeather

Committed == LookupSettled /\ last.result.name = "success" /\ ~Superseded

\* the items that are not weather items
Kept(items) == SelectSeq(items, NotWeather)

CommitFoldsDuplicates ==
  /\ Committed
  /\ ~UniqueKeys(Kept(Before))
  /\ Len(Kept(Items)) < Len(Kept(Before))

\* the lookup started last
Newest == lookups[Len(lookups)]

\* C39: once the lookup that was started last has settled, with a forecast
\* or an error, no controller is pending and the status is 'success',
\* 'error' or 'idle', not 'loading'.
StatusSettles ==
  (lookups # <<>> /\ Newest.phase = "done") =>
    /\ ui.pendingWeatherController = 0
    /\ ui.status.status \in {"success", "error", "idle"}

\* the newest lookup fails after the one before it was aborted in flight and
\* has not answered yet
StatusSettlesWitness ==
  /\ Len(lookups) = 2
  /\ lookups[1].aborted /\ lookups[1].phase # "done"
  /\ Newest.phase = "done"
  /\ LookupSettled /\ last.result.name = "WeatherError"
  /\ ui.status.status = "error"
(***************************************************************************)
(* What a regeneration keeps.                                              *)
(***************************************************************************)
\* the weather items generateChecklist was given, or those it carries over
WeatherKeysOfCall ==
  IF last.arg # Null
    THEN KeysOf(createWeatherItems(last.arg[1]))
    ELSE {getConflictKeyFromItem(Before[i]) :
            i \in {j \in 1..Len(Before) : Before[j].source = SrcWeather}}

Generated == last.op = "generateChecklist"

GenerateDropsOldDuration ==
  /\ Generated
  /\ \E i \in 1..Len(Before) :
       /\ Before[i].source = SrcDuration
       /\ getConflictKeyFromItem(Before[i]) \notin KeysOf(Items)
====
